---------------------------- MODULE Spec2Model ----------------------------
(***************************************************************************)
(* A model of the wheeck delivery-note pipeline                            *)
(* (src/src/wheeck/recording_docs.py with its collaborators                *)
(* src/src/core/querier.py and src/src/geo/geo.py).                        *)
(*                                                                         *)
(* Nullable Python values are modelled as options: None is the empty       *)
(* tuple and a value v is the one-element tuple <<v>>.  Strings that the   *)
(* code only compares are TLA+ strings; strings that the similarity        *)
(* matcher reads character by character are sequences of characters.       *)
(***************************************************************************)
EXTENDS Integers, Sequences, FiniteSets, TLC

None == <<>>
Some(v) == <<v>>
Get(x) == x[1]

Range(s) == {s[i] : i \in 1..Len(s)}

(***************************************************************************)
(* Bounds of the model.                                                    *)
(***************************************************************************)
MaxLen == 3         \* longest string given to check_similarity in SimSpec
MaxEnum == 2        \* longest canonical list given to check_similarity in SimSpec
MaxPages == 2       \* most pages of a document
MaxScans == 3       \* most pages scanned over a behaviour
MaxEdits == 2       \* most manual corrections of discard records

(***************************************************************************)
(* difflib.SequenceMatcher(None, a, b).ratio(), as check_similarity uses   *)
(* it: no junk, and the autojunk heuristic needs 200 or more characters.   *)
(* Indices are 1-based and the ranges are half-open, [lo, hi).             *)
(***************************************************************************)
RECURSIVE MatchLen(_, _, _, _, _, _)
MatchLen(a, b, i, j, ahi, bhi) ==
    IF i < ahi /\ j < bhi /\ a[i] = b[j]
    THEN 1 + MatchLen(a, b, i + 1, j + 1, ahi, bhi)
    ELSE 0

\* find_longest_match: the longest common block, the one starting earliest
\* in a, and of those the one starting earliest in b.
FindLongestMatch(a, b, alo, ahi, blo, bhi) ==
    LET cand == {<<i, j>> : i \in alo..(ahi - 1), j \in blo..(bhi - 1)}
        size(p) == MatchLen(a, b, p[1], p[2], ahi, bhi)
        best == CHOOSE p \in cand :
                    \A q \in cand :
                        \/ size(q) < size(p)
                        \/ /\ size(q) = size(p)
                           /\ \/ p[1] < q[1]
                              \/ p[1] = q[1] /\ p[2] <= q[2]
    IN  IF cand = {} THEN <<alo, blo, 0>>
        ELSE <<best[1], best[2], size(best)>>

\* get_matching_blocks, summed: the number of matched characters.
RECURSIVE Matches(_, _, _, _, _, _)
Matches(a, b, alo, ahi, blo, bhi) ==
    LET m == FindLongestMatch(a, b, alo, ahi, blo, bhi)
    IN  IF m[3] = 0 THEN 0
        ELSE m[3] + Matches(a, b, alo, m[1], blo, m[2])
                  + Matches(a, b, m[1] + m[3], ahi, m[2] + m[3], bhi)

\* ratio() = 2.0 * M / T (1.0 when T = 0), kept as the fraction <<num, den>>.
Ratio(a, b) ==
    LET t == Len(a) + Len(b)
    IN  IF t = 0 THEN <<1, 1>>
        ELSE <<2 * Matches(a, b, 1, Len(a) + 1, 1, Len(b) + 1), t>>

RatioLess(r, s) == r[1] * s[2] < s[1] * r[2]

\* enum[max_score] > 0.5
AboveThreshold(r) == 2 * r[1] > r[2]

\* dict.fromkeys(source_enum, 0.0): the keys in first-occurrence order.
RECURSIVE Dedup(_)
Dedup(s) ==
    IF s = <<>> THEN <<>>
    ELSE LET d == Dedup(SubSeq(s, 1, Len(s) - 1))
         IN  IF s[Len(s)] \in Range(d) THEN d ELSE Append(d, s[Len(s)])

\* sorted(enum, key=enum.get, reverse=True)[0]: the sort is stable, so the
\* first key in dictionary order among those with the greatest ratio.
MaxScore(record, keys) ==
    LET best == CHOOSE i \in 1..Len(keys) :
                    /\ \A j \in 1..Len(keys) :
                           ~RatioLess(Ratio(keys[i], record), Ratio(keys[j], record))
                    /\ \A j \in 1..(i - 1) :
                           RatioLess(Ratio(keys[j], record), Ratio(keys[i], record))
    IN  keys[best]

IndexError == <<"IndexError">>

\* check_similarity(source_record, source_enum)
check_similarity(source_record, source_enum) ==
    LET keys == Dedup(source_enum)
    IN  IF keys = <<>> THEN IndexError
        ELSE LET max_score == MaxScore(source_record, keys)
             IN  IF AboveThreshold(Ratio(max_score, source_record))
                 THEN max_score
                 ELSE source_record

(***************************************************************************)
(* Python truthiness of the nullable values the code tests with            *)
(* "if x" / "not x".                                                       *)
(***************************************************************************)
TruthyNum(x) == x # None /\ Get(x) # 0
TruthyChars(x) == x # None /\ Get(x) # <<>>
TruthyStr(x) == x # None /\ Get(x) # ""

(***************************************************************************)
(* The roster of config/wheeck.json ("members"), an input of the program:  *)
(* one vehicle with an assigned driver and one without.                    *)
(***************************************************************************)
V_AB123CD == <<"A", "B", "1", "2", "3", "C", "D">>
V_EF456GH == <<"E", "F", "4", "5", "6", "G", "H">>
V_AB128CD == <<"A", "B", "1", "2", "8", "C", "D">>   \* one character off AB123CD
V_ZZ000ZZ == <<"Z", "Z", "0", "0", "0", "Z", "Z">>   \* close to no vehicle
D_ROSSI == <<"R", "O", "S", "S", "I">>
D_ROSI == <<"R", "O", "S", "I">>                     \* close to ROSSI
D_XYZ == <<"X", "Y", "Z">>                           \* close to no driver

members ==
    << [vehicle |-> Some(V_AB123CD), driver |-> Some(D_ROSSI)],
       [vehicle |-> Some(V_EF456GH), driver |-> None] >>

RECURSIVE Truthies(_)
Truthies(s) ==
    IF s = <<>> THEN <<>>
    ELSE IF TruthyChars(s[1]) THEN <<Get(s[1])>> \o Truthies(Tail(s))
         ELSE Truthies(Tail(s))

\* [e['vehicle'] for e in members if e['vehicle']]
vehicles_enum == Truthies([i \in 1..Len(members) |-> members[i].vehicle])
\* [e['driver'] for e in members if e['driver']]
drivers_enum == Truthies([i \in 1..Len(members) |-> members[i].driver])

\* next((e['driver'] for e in members if e['vehicle'] == vehicle), None)
AssignedDriver(vehicle) ==
    LET hits == {i \in 1..Len(members) : members[i].vehicle = vehicle}
    IN  IF hits = {} THEN None
        ELSE members[CHOOSE i \in hits : \A j \in hits : i <= j].driver

(***************************************************************************)
(* File names.  A name is <base><suffixes>.<ext>, where each suffix is     *)
(* "_P" followed by digits; a suffix is kept as its sequence of digits.    *)
(***************************************************************************)
DdtBases == {"2024_01_DDT_0001_0100"}
OtherBases == {"notes"}
\* The bases that follow the convention \d{4}_\d{2}_DDT_\d{4}_\d{4}.
ConventionBases == {"2024_01_DDT_0001_0100", "2024_02_DDT_0101_0200"}

RECURSIVE Digits(_)
Digits(n) == IF n < 10 THEN <<n>> ELSE Append(Digits(n \div 10), n % 10)

RECURSIVE IntOf(_)
IntOf(ds) ==
    IF ds = <<>> THEN 0 ELSE 10 * IntOf(SubSeq(ds, 1, Len(ds) - 1)) + ds[Len(ds)]

\* f"{working_page:0>3}": right-aligned in a field of at least 3, filled with 0.
PadPage(n) ==
    LET d == Digits(n)
    IN  [i \in 1..(3 - Len(d)) |-> 0] \o d

FileName(base, sfx, ext) == [base |-> base, sfx |-> sfx, ext |-> ext]

\* re.search(PATTERN_WORKING_DOC, doc)
MatchesWorkingDoc(name) ==
    /\ name.base \in ConventionBases
    /\ \A i \in 1..Len(name.sfx) : Len(name.sfx[i]) = 3
    /\ name.ext = "pdf"

\* re.search(PATTERN_DISCARD_DOC, working_doc_name): group(1) and int(group(2))
MatchesDiscardDoc(name) == MatchesWorkingDoc(name) /\ Len(name.sfx) >= 1
DiscardDocSource(name) == FileName(name.base, <<>>, "pdf")
DiscardPageNumber(name) == IntOf(name.sfx[1])

\* working_doc.replace('.recording', '').rsplit('/', maxsplit=1)[-1]
WorkingDocName(name) ==
    IF name.ext = "recording.pdf" THEN FileName(name.base, name.sfx, "pdf") ELSE name

\* The name discard_doc gives the isolated page of <x>.recording.pdf:
\* f"{working_doc.replace('.recording.pdf', '')...}_P{working_page:0>3}.pdf"
IsolatedName(name, working_page) ==
    FileName(name.base, Append(name.sfx, PadPage(working_page)), "pdf")

(***************************************************************************)
(* Page texts, by what the five patterns find in them.  doc, dx, sx, qty   *)
(* and veh are the groups of PATTERN_DOC_NUMBER, PATTERN_CITY_DX,          *)
(* PATTERN_CITY_SX, PATTERN_QUANTITY and PATTERN_VEHICLE after the         *)
(* conversions of the code, or None where the pattern does not match.      *)
(* A group the pattern accepts and the conversion rejects is written as a  *)
(* value the conversion cannot give: a number below 0 for digits that are  *)
(* no number ("." gives int('')), day 0 for a date datetime rejects        *)
(* ("31/02/2024", "00/00/0000").                                           *)
(***************************************************************************)
Date(y, d) == [y |-> y, d |-> d]
Doc(n, g, dt) == Some([number |-> n, genre |-> g, date |-> dt])
City(co, ci) == Some([company |-> co, city |-> ci])
Veh(v, d) == Some([vehicle |-> v, driver |-> d])
Text(doc, dx, sx, qty, veh) == [doc |-> doc, dx |-> dx, sx |-> sx, qty |-> qty, veh |-> veh]

\* int(search.group(1).replace('.', '')) raises ValueError (lines 133, 174)
IntRejects(n) == n < 0

\* datetime.strptime(search.group(3), '%d/%m/%Y') raises ValueError (line 135)
StrptimeRejects(dt) == dt.d < 1

GoodDoc == Doc(1, "TA", Date(2024, 1))
NoNumberDoc == Doc(-1, "TA", Date(2024, 1))
NoDateDoc == Doc(1, "TA", Date(2024, 0))
NoQuantity == Some(-1)
GoodCity == City("ACME", "MILANO")
GoodVeh == Veh(V_AB123CD, Some(D_ROSSI))

\* The texts the pages of the documents may hold.
DocumentTexts ==
    { Text(GoodDoc, GoodCity, None, Some(3200), GoodVeh),
      Text(Doc(2, "TA", Date(2024, 1)), GoodCity, None, Some(3200), GoodVeh),
      Text(Doc(1, "TA", Date(2024, 2)), GoodCity, None, Some(500), GoodVeh),
      Text(GoodDoc, GoodCity, None, None, GoodVeh),
      Text(None, GoodCity, None, Some(3200), GoodVeh),
      Text(GoodDoc, None, None, Some(3200), GoodVeh),
      Text(GoodDoc, GoodCity, None, Some(3200), Veh(V_ZZ000ZZ, Some(D_XYZ))),
      Text(NoDateDoc, GoodCity, None, Some(3200), GoodVeh),
      Text(GoodDoc, GoodCity, None, NoQuantity, GoodVeh) }

\* The texts for the extraction taken on its own: every way the five patterns
\* match or fail, with the plates and drivers the resolution tells apart.
VehicleGroups ==
    { GoodVeh,
      Veh(V_AB123CD, None),
      Veh(V_AB123CD, Some(D_XYZ)),
      Veh(V_AB128CD, None),
      Veh(V_EF456GH, Some(D_ROSI)),
      Veh(V_EF456GH, Some(D_XYZ)),
      Veh(V_EF456GH, Some(V_EF456GH)),
      Veh(V_ZZ000ZZ, Some(V_AB123CD)),
      Veh(V_ZZ000ZZ, Some(D_XYZ)) }

PageTexts ==
    { Text(doc, dx, sx, qty, veh) :
          doc \in {None, GoodDoc, NoNumberDoc, NoDateDoc}, dx \in {None, GoodCity},
          sx \in {None, City("BETA", "ROMA")}, qty \in {None, Some(3200), NoQuantity},
          veh \in {None} \cup VehicleGroups }

(***************************************************************************)
(* The Delivery dataclass.  recording_date, the timestamp of the job, is   *)
(* written to the store and never read by the pipeline; it is left out.    *)
(***************************************************************************)
Delivery(document_source, page_number) ==
    [ document_number |-> None, document_genre |-> None, document_date |-> None,
      company_name |-> None, delivery_city |-> None, quantity |-> None,
      delivery_date |-> None, vehicle |-> None, vehicle_driver |-> None,
      distance |-> None, document_source |-> document_source,
      page_number |-> page_number, id_warning_message |-> None ]

\* The columns QUERY_GET_DISCARD selects, which are the keys charge() copies.
DiscardColumns ==
    { "document_number", "document_genre", "document_date", "company_name",
      "delivery_city", "quantity", "delivery_date", "vehicle", "vehicle_driver",
      "distance", "id_warning_message" }

\* Delivery.charge(dict(zip(querier.row_header(), discard)))
charge(dl, row) ==
    [k \in DOMAIN dl |-> IF k \in DiscardColumns THEN row[k] ELSE dl[k]]

\* None not in discard
NoneNotIn(row) == \A k \in DiscardColumns : row[k] # None

(***************************************************************************)
(* The store: three tables, each a sequence of rows in insertion order.    *)
(* A warning's id is its position (QUERY_INSERT_WARNING ... RETURNING id). *)
(***************************************************************************)
\* astuple(delivery)[:-1]: every field but id_warning_message
DeliveryRow(dl) == [k \in (DOMAIN dl) \ {"id_warning_message"} |-> dl[k]]

\* astuple(delivery), with the status column at its default
DiscardRow(dl) ==
    [k \in (DOMAIN dl) \cup {"status"} |-> IF k = "status" THEN TRUE ELSE dl[k]]

WarningRow(genre, args) == [genre |-> genre, args |-> args, status |-> TRUE]

\* A variant of Binds that binds only when no argument is None (C39).
BindsNoNone(args) == args # <<>> /\ None \notin Range(args)

\* Querier.run: the parameters are bound when there is at least one and they
\* are not all None.
Binds(args) == args # <<>> /\ Range(args) # {None}

\* Querier.run(query, *args): the call made on the cursor, with the
\* parameters when they are bound and with the query alone otherwise.
Querier_run(args) ==
    [issued |-> TRUE, args |-> args, bound |-> Binds(args),
     params |-> IF Binds(args) THEN args ELSE <<>>]

\* QUERY_CHECK_DUPLICATE, a COUNT(*): rows of the same page of the same
\* source, or of the same number, genre and year.  A NULL column matches nothing.
SameDocumentFullDate(r, number, genre, date) ==
    /\ r.document_number # None /\ r.document_number = number
    /\ r.document_genre # None /\ r.document_genre = genre
    /\ r.document_date # None /\ r.document_date = date
SameDocument(r, number, genre, date) ==
    /\ r.document_number # None /\ r.document_number = number
    /\ r.document_genre # None /\ r.document_genre = genre
    /\ r.document_date # None /\ date # None /\ Get(r.document_date).y = Get(date).y

CountDuplicates(tbl, dl) ==
    Cardinality({i \in 1..Len(tbl) :
        \/ tbl[i].document_source = dl.document_source /\ tbl[i].page_number = dl.page_number
        \/ SameDocument(tbl[i], dl.document_number, dl.document_genre, dl.document_date)})

\* QUERY_GET_DISTANCE: the distinct distances (NULL is one of them) stored
\* for the city.
DistancesOf(tbl, city) ==
    {tbl[i].distance : i \in {j \in 1..Len(tbl) : tbl[j].delivery_city = city}}

\* QUERY_GET_DISCARD: the open discard rows of a page of a source.
OpenDiscards(tbl, source, page) ==
    {i \in 1..Len(tbl) : /\ tbl[i].status
                         /\ tbl[i].document_source = source
                         /\ tbl[i].page_number = page}

\* A variant of UpdateWarning that also rewrites the genre of the row (C32).
UpdateWarningRelabels(tbl, id) ==
    [i \in 1..Len(tbl) |-> IF Some(i) = id
                           THEN [tbl[i] EXCEPT !.status = FALSE, !.genre = "RESOLVED"]
                           ELSE tbl[i]]

\* QUERY_UPDATE_WARNING: the table after it, and the rows it touched.
UpdateWarning(tbl, id) ==
    [i \in 1..Len(tbl) |-> IF Some(i) = id THEN [tbl[i] EXCEPT !.status = FALSE] ELSE tbl[i]]
UpdateWarningRows(tbl, id) == Cardinality({i \in 1..Len(tbl) : Some(i) = id})

\* QUERY_GET_GAP over the view vw_gap_message: the open GAP warnings of a
\* document number and year.
OpenGaps(tbl, number, year) ==
    {i \in 1..Len(tbl) : /\ tbl[i].genre = "GAP"
                         /\ tbl[i].status
                         /\ tbl[i].args.document_number = number
                         /\ tbl[i].args.document_year = Some(year)}

(***************************************************************************)
(* sorted(os.walk(PATH_WORKING_DIR)[2]): file names in character order.    *)
(* The bases are told apart by their first characters and no extension is  *)
(* a prefix of another, so a name is ordered as the sequence: rank of the  *)
(* base, the characters of the suffixes, ".", rank of the extension.       *)
(***************************************************************************)
BaseRank(b) ==
    CASE b = "2024_01_DDT_0001_0100" -> 1
      [] b = "2024_02_DDT_0101_0200" -> 2
      [] OTHER -> 3
ExtRank(e) ==
    CASE e = "pdf" -> 1
      [] e = "recorded.pdf" -> 2
      [] e = "recording.pdf" -> 3
      [] OTHER -> 4

RECURSIVE SuffixChars(_)
SuffixChars(sfx) ==
    IF sfx = <<>> THEN <<>>
    ELSE <<95, 80>> \o [i \in 1..Len(sfx[1]) |-> 48 + sfx[1][i]] \o SuffixChars(Tail(sfx))

NameKey(name) == <<BaseRank(name.base)>> \o SuffixChars(name.sfx) \o <<46, ExtRank(name.ext)>>

RECURSIVE LexLess(_, _)
LexLess(a, b) ==
    IF b = <<>> THEN FALSE
    ELSE IF a = <<>> THEN TRUE
    ELSE IF a[1] # b[1] THEN a[1] < b[1]
    ELSE LexLess(Tail(a), Tail(b))

\* A variant of SortNames that lists the greatest name first (C28).
RECURSIVE SortNamesDescending(_)
SortNamesDescending(names) ==
    IF names = {} THEN <<>>
    ELSE LET first == CHOOSE n \in names :
                          \A m \in names \ {n} : LexLess(NameKey(m), NameKey(n))
         IN  <<first>> \o SortNamesDescending(names \ {first})

RECURSIVE SortNames(_)
SortNames(names) ==
    IF names = {} THEN <<>>
    ELSE LET first == CHOOSE n \in names :
                          \A m \in names \ {n} : LexLess(NameKey(n), NameKey(m))
         IN  <<first>> \o SortNames(names \ {first})

(***************************************************************************)
(* The collaborators' answers, inputs of a page's processing.              *)
(***************************************************************************)
Kms == {12}

\* What the geocoding and routing services answer: pelias_search raises,
\* finds nothing or finds the city; directions raises or gives a distance.
\* An ApiError carries the body of the service's answer as e.message.  The
\* handlers of geo.py log e.message['error']['code'] and
\* e.message['error']['message']: "ApiError" is an error whose body has
\* them, "ApiError(uncoded)" one whose body cannot be indexed that way (no
\* body at all, or {"error": "<text>"}), for which the handler itself
\* raises TypeError, and "ApiError(keyless)" one whose body is a dict
\* without one of the keys, for which the handler raises KeyError.
GeoFailures == {"ApiError", "ApiError(uncoded)", "ApiError(keyless)", "HTTPError", "Timeout"}
GeoOutcomes ==
    {[search |-> s, route |-> "none", km |-> 0] : s \in GeoFailures \cup {"empty"}}
    \cup {[search |-> "found", route |-> r, km |-> 0] : r \in GeoFailures}
    \cup {[search |-> "found", route |-> "ok", km |-> k] : k \in Kms}

\* The except clauses of GeoMap.search and GeoMap.get_distance_from_coords:
\* whether the failure is logged and None returned.
Caught(failure) == failure \notin {"ApiError(uncoded)", "ApiError(keyless)"}

\* The exception the handler raises for a failure it does not catch.
HandlerRaises(failure) ==
    IF failure = "ApiError(keyless)" THEN "KeyError" ELSE "TypeError"

\* What the ODBC driver does with a statement that holds a parameter marker
\* and is executed with no parameter: it raises, or it takes the marker as NULL.
UnboundOutcomes == {"raise", "null"}

\* Whether each write of the page reports one affected row.  Every execute
\* reports its rows on its own.  During the extraction: the inserts of the
\* vehicle and driver messages (lines 203, 221).
WarningOutcomes(faults) ==
    IF faults THEN [warn_vehicle : BOOLEAN, warn_driver : BOOLEAN]
    ELSE {[warn_vehicle |-> TRUE, warn_driver |-> TRUE]}

\* After the extraction: the insert of the delivery (line 278), the update of
\* the carried message (284), the insert of the DISCARD message (291), the
\* insert of the discard row (300) and the update of the GAP message (313).
WriteOutcomes(faults) ==
    IF faults
    THEN [ins : BOOLEAN, upd : BOOLEAN, warn_discard : BOOLEAN, disc : BOOLEAN,
          upd_gap : BOOLEAN]
    ELSE {[ins |-> TRUE, upd |-> TRUE, warn_discard |-> TRUE, disc |-> TRUE,
           upd_gap |-> TRUE]}

\* Whether each of the n inserts of a sweep reports one affected row.
SweepOutcomes(faults, n) ==
    IF faults THEN [1..n -> BOOLEAN] ELSE {[i \in 1..n |-> TRUE]}

(***************************************************************************)
(* save_warning: the text is rendered first (a %d field that is None       *)
(* raises TypeError), then the row is inserted; -1 when the insert does    *)
(* not report one row.                                                     *)
(***************************************************************************)
Renders(genre, args) ==
    CASE genre = "DISCARD" -> args.document_number # None
      [] genre = "GAP" -> args.document_number # None /\ args.document_year # None
      [] OTHER -> TRUE

save_warning(tbl, genre, args, ok) ==
    IF ~Renders(genre, args)
    THEN [warning |-> tbl, id |-> None, exc |-> Some("TypeError")]
    ELSE IF ~ok
    THEN [warning |-> tbl, id |-> Some(-1), exc |-> None]
    ELSE [warning |-> Append(tbl, WarningRow(genre, args)),
          id |-> Some(Len(tbl) + 1), exc |-> None]

(***************************************************************************)
(* The body of doc_scanner's loop, stage by stage.  A stage takes and      *)
(* gives the context of the page: the Delivery object dl, the accumulator  *)
(* on_error (a sequence of names; empty is None), the three tables, the    *)
(* isolated files written, the calls made so far (trace) and the exception *)
(* that ended the scan (exc).  After an exception no stage does anything.  *)
(***************************************************************************)
PageContext(name, working_page, dtbl, xtbl, wtbl) ==
    [ dl |-> Delivery(WorkingDocName(name), working_page),
      on_error |-> <<>>, extract_errors |-> <<>>,
      delivery |-> dtbl, discard |-> xtbl, warning |-> wtbl,
      saved |-> {}, trace |-> <<>>, exc |-> None,
      charged |-> FALSE, carried |-> FALSE, open_discard |-> 0,
      duplicate |-> FALSE, cache |-> "none", geo_failed |-> FALSE,
      restarted |-> FALSE ]

Call(c, what) == [c EXCEPT !.trace = Append(@, what)]
\* An exception that takes the rows written through the scan's connection
\* with it, as if they had never been committed (a variant).
RaiseLosing(c, what) == [c EXCEPT !.exc = Some(what), !.delivery = <<>>, !.discard = <<>>]
\* An exception leaves the store as the statements run so far made it: the
\* connections are opened with autocommit (querier.py line 80).
Raise(c, what) == [c EXCEPT !.exc = Some(what)]

\* lines 129-143: the number and the genre are assigned (lines 133-134)
\* before the date is converted (line 135).
ExtractDocNumber(c, text) ==
    IF text.doc # None
    THEN IF IntRejects(Get(text.doc).number) THEN Raise(c, "ValueError")
         ELSE LET d == [c EXCEPT !.dl.document_number = Some(Get(text.doc).number),
                                 !.dl.document_genre = Some(Get(text.doc).genre)]
              IN  IF StrptimeRejects(Get(text.doc).date) THEN Raise(d, "ValueError")
                  ELSE [d EXCEPT !.dl.document_date = Some(Get(text.doc).date)]
    ELSE [c EXCEPT !.on_error = Append(@, "PATTERN_DOC_NUMBER")]

\* A variant of ExtractCity that looks at the delivery block only (C26).
ExtractCityPrimaryOnly(c, text) ==
    IF c.exc # None THEN c
    ELSE IF text.dx # None
    THEN [c EXCEPT !.dl.company_name = Some(Get(text.dx).company),
                   !.dl.delivery_city = Some(Get(text.dx).city)]
    ELSE [c EXCEPT !.on_error = Append(@, "PATTERN_CITY")]

\* lines 145-168
ExtractCity(c, text) ==
    IF c.exc # None THEN c
    ELSE IF text.dx # None
    THEN [c EXCEPT !.dl.company_name = Some(Get(text.dx).company),
                   !.dl.delivery_city = Some(Get(text.dx).city)]
    ELSE IF text.sx # None
    THEN [c EXCEPT !.dl.company_name = Some(Get(text.sx).company),
                   !.dl.delivery_city = Some(Get(text.sx).city)]
    ELSE [c EXCEPT !.on_error = Append(@, "PATTERN_CITY")]

\* A variant of ExtractQuantity that copies the date only where the quantity
\* rule matched (C24).
ExtractQuantityDateInside(c, text) ==
    IF c.exc # None THEN c
    ELSE IF text.qty # None /\ IntRejects(Get(text.qty)) THEN Raise(c, "ValueError")
    ELSE IF text.qty # None
    THEN [c EXCEPT !.dl.quantity = text.qty, !.dl.delivery_date = c.dl.document_date]
    ELSE [c EXCEPT !.on_error = Append(@, "PATTERN_QUANTITY")]

\* lines 170-184
ExtractQuantity(c, text) ==
    IF c.exc # None THEN c
    ELSE IF text.qty # None /\ IntRejects(Get(text.qty)) THEN Raise(c, "ValueError")
    ELSE LET q == IF text.qty # None
                  THEN [c EXCEPT !.dl.quantity = text.qty]
                  ELSE [c EXCEPT !.on_error = Append(@, "PATTERN_QUANTITY")]
         IN  [q EXCEPT !.dl.delivery_date = q.dl.document_date]

\* lines 198-199
ResolveVehicle(vehicle) ==
    IF vehicle \in Range(vehicles_enum) THEN vehicle
    ELSE check_similarity(vehicle, vehicles_enum)

\* A variant of ResolveDriver that keeps a name the similarity left as it was
\* (C27).
ResolveDriverKeepsRaw(driver, vehicle, resolved) ==
    IF driver # None /\ Get(driver) \in Range(drivers_enum) THEN driver
    ELSE LET d == IF \/ driver = Some(vehicle)
                     \/ driver # None /\ Get(driver) \in Range(vehicles_enum)
                  THEN None ELSE driver
         IN  IF TruthyChars(d) THEN Some(check_similarity(Get(d), drivers_enum))
             ELSE AssignedDriver(Some(resolved))

\* lines 209-216
ResolveDriver(driver, vehicle, resolved) ==
    IF driver # None /\ Get(driver) \in Range(drivers_enum) THEN driver
    ELSE LET d == IF \/ driver = Some(vehicle)
                     \/ driver # None /\ Get(driver) \in Range(vehicles_enum)
                  THEN None ELSE driver
             calc_driver == IF TruthyChars(d)
                            THEN Some(check_similarity(Get(d), drivers_enum))
                            ELSE None
         IN  IF TruthyChars(d) /\ d # calc_driver THEN calc_driver
             ELSE AssignedDriver(Some(resolved))

\* One of the two calls save_warning(MessageGenre.WARNING, ...), lines 203 and 221.
SimilarityWarning(c, field, value, ok) ==
    LET r == save_warning(c.warning, "WARNING",
                          [genre |-> field, record |-> value,
                           page |-> c.dl.page_number, doc |-> c.dl.document_source], ok)
    IN  [Call(c, "save_warning WARNING") EXCEPT !.warning = r.warning]

\* A plate off the roster taken as a failure of the vehicle rule (a variant).
RecordVehicleStrict(c, resolved, w) ==
    IF resolved \notin Range(vehicles_enum)
    THEN [c EXCEPT !.dl.vehicle = Some(resolved),
                   !.on_error = Append(@, "PATTERN_VEHICLE")]
    ELSE [c EXCEPT !.dl.vehicle = Some(resolved)]

\* lines 198-206: the plate is stored, with a message when it is off the roster.
RecordVehicle(c, resolved, w) ==
    IF resolved \notin Range(vehicles_enum)
    THEN SimilarityWarning([c EXCEPT !.dl.vehicle = Some(resolved)],
                           "vehicle", Some(resolved), w.warn_vehicle)
    ELSE [c EXCEPT !.dl.vehicle = Some(resolved)]

\* lines 208-224: the driver is stored, with a message when off the roster.
RecordDriver(c, driver, w) ==
    IF driver = None \/ Get(driver) \notin Range(drivers_enum)
    THEN SimilarityWarning([c EXCEPT !.dl.vehicle_driver = driver],
                           "driver", driver, w.warn_driver)
    ELSE [c EXCEPT !.dl.vehicle_driver = driver]

\* lines 186-232
ExtractVehicle(c, text, w) ==
    IF c.exc # None THEN c
    ELSE IF text.veh = None
    THEN [c EXCEPT !.on_error = Append(@, "PATTERN_VEHICLE")]
    ELSE RecordDriver(RecordVehicle(c, ResolveVehicle(Get(text.veh).vehicle), w),
                      ResolveDriver(Get(text.veh).driver, Get(text.veh).vehicle,
                                    ResolveVehicle(Get(text.veh).vehicle)),
                      w)

\* A variant of Extract that stops at the first rule that fails (C25).
ExtractShortCircuit(c, text, w) ==
    LET e == IF text.doc = None THEN ExtractDocNumber(c, text)
             ELSE IF text.dx = None /\ text.sx = None
             THEN ExtractCity(ExtractDocNumber(c, text), text)
             ELSE IF text.qty = None
             THEN ExtractQuantity(ExtractCity(ExtractDocNumber(c, text), text), text)
             ELSE ExtractVehicle(ExtractQuantity(ExtractCity(ExtractDocNumber(c, text), text),
                                                 text), text, w)
    IN  [e EXCEPT !.extract_errors = e.on_error]

\* lines 129-232: the four rules, each applied whatever the others found.
Extract(c, text, w) ==
    LET e == ExtractVehicle(ExtractQuantity(ExtractCity(ExtractDocNumber(c, text), text), text), text, w)
    IN  [e EXCEPT !.extract_errors = e.on_error]

\* The open discard rows that lines 235-246 can fetch for the page: none
\* unless the name is that of an isolated page and a rule has failed.
DiscardChoices(c, name) ==
    LET n == WorkingDocName(name)
    IN  IF MatchesDiscardDoc(n) /\ c.on_error # <<>>
        THEN OpenDiscards(c.discard, DiscardDocSource(n), DiscardPageNumber(n))
        ELSE {}

\* A lookup that leaves the message id of a discard row with a NULL cell
\* where it is (a variant).
LookupDiscardNoCarry(c, name, k) ==
    IF c.exc # None \/ ~MatchesDiscardDoc(WorkingDocName(name)) THEN c
    ELSE IF k = 0 \/ c.on_error = <<>> THEN Call(c, "QUERY_GET_DISCARD")
    ELSE IF NoneNotIn(c.discard[k])
    THEN [Call(c, "QUERY_GET_DISCARD") EXCEPT
              !.dl = charge(c.dl, c.discard[k]), !.on_error = <<>>,
              !.charged = TRUE, !.open_discard = k]
    ELSE [Call(c, "QUERY_GET_DISCARD") EXCEPT !.open_discard = k]

\* lines 234-255; k is the row fetchone() gives (0: no open discard row).
\* The query has no ORDER BY: which of several rows comes first is the store's choice.
LookupDiscard(c, name, k) ==
    IF c.exc # None \/ ~MatchesDiscardDoc(WorkingDocName(name)) THEN c
    ELSE LET q == Call(c, "QUERY_GET_DISCARD")
         IN  IF k = 0 \/ c.on_error = <<>> THEN q
             ELSE IF NoneNotIn(c.discard[k])
             THEN [q EXCEPT !.dl = charge(c.dl, c.discard[k]),
                            !.on_error = <<>>,
                            !.charged = TRUE, !.open_discard = k]
             ELSE [q EXCEPT !.dl.id_warning_message = c.discard[k].id_warning_message,
                            !.carried = TRUE, !.open_discard = k]

\* Delivery.calculate_distance, with GeoMap.search and
\* GeoMap.get_distance_from_coords: a failure that is caught gives None.
calculate_distance(c, geo) ==
    IF ~TruthyStr(c.dl.delivery_city) THEN c
    ELSE LET s == Call(c, "geo.search")
             r == Call(s, "geo.route")
             failed(x) == [x EXCEPT !.geo_failed = TRUE]
         IN  IF geo.search \in GeoFailures /\ ~Caught(geo.search)
             THEN Raise(failed(s), HandlerRaises(geo.search))
             ELSE IF geo.search # "found" THEN [failed(s) EXCEPT !.dl.distance = None]
             ELSE IF geo.route \in GeoFailures /\ ~Caught(geo.route)
             THEN Raise(failed(r), HandlerRaises(geo.route))
             ELSE IF geo.route # "ok" THEN [failed(r) EXCEPT !.dl.distance = None]
             ELSE [r EXCEPT !.dl.distance = Some(geo.km)]

\* time.sleep(1.5), line 273
Sleep(c) == Call(c, "sleep")

\* lines 269-273: the cache miss
ResolveMiss(c, geo) ==
    LET d == calculate_distance([c EXCEPT !.cache = "miss"], geo)
    IN  IF d.exc # None THEN d ELSE Sleep(d)

\* line 266: rows == 1
\* A lookup that never finds the distance (a variant).
IsCacheHitNever(distances) == FALSE
\* A lookup that takes a stored NULL as no distance (a variant, C35).
IsCacheHitNonNull(distances) == Cardinality(distances) = 1 /\ distances # {None}
IsCacheHit(distances) == Cardinality(distances) = 1

\* lines 263-273
ResolveDistance(c, drv, geo) ==
    IF TruthyNum(c.dl.distance) THEN c
    ELSE LET q == Call(c, "QUERY_GET_DISTANCE")
         IN  IF ~Binds(<<c.dl.delivery_city>>)
             THEN IF drv = "raise" THEN Raise(q, "ProgrammingError")
                  ELSE ResolveMiss(q, geo)
             ELSE LET ds == DistancesOf(c.delivery, c.dl.delivery_city)
                  IN  IF IsCacheHit(ds)
                      THEN [q EXCEPT !.dl.distance = CHOOSE d \in ds : TRUE,
                                     !.cache = "hit"]
                      ELSE ResolveMiss(q, geo)

\* check_duplicate: delivery.document_date.year is read before the query runs.
check_duplicate(tbl, dl) == CountDuplicates(tbl, dl) > 0

\* lines 257-273
DuplicateOrDistance(c, drv, geo) ==
    IF c.exc # None THEN c
    ELSE IF c.on_error = <<>>
    THEN IF c.dl.document_date = None THEN Raise(c, "AttributeError")
         ELSE LET q == Call(c, "QUERY_CHECK_DUPLICATE")
              IN  IF check_duplicate(c.delivery, c.dl)
                  THEN [q EXCEPT !.on_error = <<"CHECK_DUPLICATE">>,
                                 !.dl.id_warning_message = Some(-1),
                                 !.duplicate = TRUE]
                  ELSE ResolveDistance(q, drv, geo)
    ELSE ResolveDistance(c, drv, geo)

\* Whether lines 263-273 will run the distance query, and with what result.
WillLookup(c) ==
    /\ c.exc = None
    /\ ~TruthyNum(c.dl.distance)
    /\ \/ c.on_error # <<>>
       \/ c.dl.document_date # None /\ ~check_duplicate(c.delivery, c.dl)
UnboundChoices(c) ==
    IF WillLookup(c) /\ ~Binds(<<c.dl.delivery_city>>) THEN UnboundOutcomes ELSE {"unused"}
NoGeo == [search |-> "unused", route |-> "none", km |-> 0]
\* geos: what the services may answer when they are called for the page.
GeoChoices(c, geos) ==
    IF /\ WillLookup(c)
       /\ TruthyStr(c.dl.delivery_city)
       /\ ~IsCacheHit(DistancesOf(c.delivery, c.dl.delivery_city))
    THEN geos ELSE {NoGeo}

\* An insert that may be made with rules still failed (a variant).
MayInsertAlways(c) == TRUE
\* line 276: if not discarded_pages.on_error
MayInsert(c) == c.on_error = <<>>

\* lines 275-286
Persist(c, w) ==
    IF c.exc # None \/ ~MayInsert(c) THEN c
    ELSE LET q == Call(c, "QUERY_INSERT_DELIVERY")
         IN  IF ~w.ins THEN [q EXCEPT !.on_error = <<"INSERT_DELIVERY">>]
             ELSE LET i == [q EXCEPT !.delivery = Append(@, DeliveryRow(c.dl))]
                  IN  IF TruthyNum(c.dl.id_warning_message)
                      THEN [Call(i, "QUERY_UPDATE_WARNING") EXCEPT
                                !.warning = IF w.upd
                                            THEN UpdateWarning(@, c.dl.id_warning_message)
                                            ELSE @]
                      ELSE i

\* A variant of RecordDiscard that inserts the discard row whatever id the
\* message got (C33).
RecordDiscardAnyId(c, w) ==
    IF TruthyNum(c.dl.id_warning_message) THEN c
    ELSE LET r == save_warning(c.warning, "DISCARD",
                               [page |-> c.dl.page_number, doc |-> c.dl.document_source,
                                pattern |-> c.on_error,
                                document_number |-> c.dl.document_number,
                                document_genre |-> c.dl.document_genre,
                                document_date |-> c.dl.document_date], w.warn_discard)
             s == Call(c, "save_warning DISCARD")
         IN  IF r.exc # None THEN Raise(s, Get(r.exc))
             ELSE LET t == [s EXCEPT !.warning = r.warning, !.dl.id_warning_message = r.id]
                  IN  [Call(t, "QUERY_INSERT_DISCARD") EXCEPT
                           !.discard = IF w.disc THEN Append(@, DiscardRow(t.dl)) ELSE @]

\* lines 290-301: the DISCARD warning and the discard row
RecordDiscard(c, w) ==
    IF TruthyNum(c.dl.id_warning_message) THEN c
    ELSE LET r == save_warning(c.warning, "DISCARD",
                               [page |-> c.dl.page_number, doc |-> c.dl.document_source,
                                pattern |-> c.on_error,
                                document_number |-> c.dl.document_number,
                                document_genre |-> c.dl.document_genre,
                                document_date |-> c.dl.document_date], w.warn_discard)
             s == Call(c, "save_warning DISCARD")
         IN  IF r.exc # None THEN Raise(s, Get(r.exc))
             ELSE LET t == [s EXCEPT !.warning = r.warning, !.dl.id_warning_message = r.id]
                  IN  IF r.id = Some(-1) THEN t
                      ELSE [Call(t, "QUERY_INSERT_DISCARD") EXCEPT
                                !.discard = IF w.disc THEN Append(@, DiscardRow(t.dl)) ELSE @]

\* discard_doc: a new one-page file in the discarded directory; the source
\* document is only read.
discard_doc(c, name) ==
    [Call(c, "discard_doc") EXCEPT !.saved = @ \cup {IsolatedName(name, c.dl.page_number)}]

\* lines 304-305: discard_doc returns PATH_DISCARDED_DIR / "...", a
\* pathlib.Path, and the log call reads discarded_doc.rsplit(...): a Path
\* has no rsplit, so the call raises AttributeError.
LogIsolated(c) == Raise(c, "AttributeError")

\* line 306, discarded_pages.restart()
Restart(c) == [c EXCEPT !.on_error = <<>>, !.restarted = TRUE]

\* lines 288-306
Isolate(c, name, w) ==
    IF c.exc # None \/ c.on_error = <<>> THEN c
    ELSE LET r == RecordDiscard(c, w)
         IN  IF r.exc # None THEN r
             ELSE LET l == LogIsolated(discard_doc(r, name))
                  IN  IF l.exc # None THEN l ELSE Restart(l)

\* lines 308-315: delivery.document_date.year is read before the query runs.
\* The open GAP messages QUERY_GET_GAP returns for the page (0: none, or the
\* query is not reached).  The query has no ORDER BY: which of several rows
\* fetch(FETCH_VAL) gives is the store's choice.
GapChoices(c) ==
    IF c.exc # None \/ c.dl.document_date = None THEN {0}
    ELSE LET gaps == OpenGaps(c.warning, c.dl.document_number, Get(c.dl.document_date).y)
         IN  IF gaps = {} THEN {0} ELSE gaps

GapCheck(c, w, g) ==
    IF c.exc # None THEN c
    ELSE IF c.dl.document_date = None THEN Raise(c, "AttributeError")
    ELSE LET q == Call(c, "QUERY_GET_GAP")
         IN  IF g = 0 THEN q
             ELSE LET id_warning_gap == g
                  IN  [Call(q, "QUERY_UPDATE_WARNING") EXCEPT
                           !.warning = IF w.upd_gap THEN UpdateWarning(@, Some(id_warning_gap)) ELSE @]

(***************************************************************************)
(* The gap sweep.  The views vw_delivery_gap and vw_gap_message belong to  *)
(* the definition of the store; they are taken from the specification: a  *)
(* gap is a document number missing from the stored deliveries of a year   *)
(* between the least and the greatest number stored for that year, it is   *)
(* a known discard when a discard record holds that number and year, and   *)
(* vw_gap_message holds the open GAP messages.                             *)
(***************************************************************************)
YearOf(r) == Get(r.document_date).y

NumbersOf(tbl, year) ==
    {Get(tbl[i].document_number) :
        i \in {j \in 1..Len(tbl) : /\ tbl[j].document_number # None
                                   /\ tbl[j].document_date # None
                                   /\ YearOf(tbl[j]) = year}}

\* vw_delivery_gap: rows (document_number, document_year, is_discard)
DeliveryGap(dtbl, xtbl) ==
    LET years == {YearOf(dtbl[i]) : i \in {j \in 1..Len(dtbl) : dtbl[j].document_date # None}}
        missing(y) ==
            {n \in UNION {lo..hi : lo, hi \in NumbersOf(dtbl, y)} :
                n \notin NumbersOf(dtbl, y)}
    IN  UNION {{[document_number |-> n, document_year |-> y,
                 is_discard |-> n \in NumbersOf(xtbl, y)] : n \in missing(y)} : y \in years}

\* ORDER BY dg.document_year, dg.document_number
RECURSIVE SortGaps(_)
SortGaps(rows) ==
    IF rows = {} THEN <<>>
    ELSE LET first == CHOOSE r \in rows : \A q \in rows :
                          \/ r.document_year < q.document_year
                          \/ /\ r.document_year = q.document_year
                             /\ r.document_number <= q.document_number
         IN  <<first>> \o SortGaps(rows \ {first})

\* A variant of QueryCheckGaps without the join on vw_gap_message (C36).
QueryCheckGapsUnjoined(dtbl, xtbl, wtbl) ==
    SortGaps({g \in DeliveryGap(dtbl, xtbl) : ~g.is_discard})

\* QUERY_CHECK_GAPS: the gaps that are no known discard and have no row in
\* vw_gap_message
QueryCheckGaps(dtbl, xtbl, wtbl) ==
    SortGaps({g \in DeliveryGap(dtbl, xtbl) :
                 /\ ~g.is_discard
                 /\ OpenGaps(wtbl, Some(g.document_number), g.document_year) = {}})

\* lines 383-386: one call of save_warning for each row
RECURSIVE SaveGaps(_, _, _)
SaveGaps(wtbl, rows, oks) ==
    IF rows = <<>> THEN wtbl
    ELSE SaveGaps(save_warning(wtbl, "GAP",
                               [document_number |-> Some(Head(rows).document_number),
                                document_year |-> Some(Head(rows).document_year)],
                               Head(oks)).warning,
                  Tail(rows), Tail(oks))

\* check_gaps: the rows of the query, the warning table after the loop and
\* the number returned
check_gaps(dtbl, xtbl, wtbl, oks) ==
    [ rows |-> QueryCheckGaps(dtbl, xtbl, wtbl),
      warning |-> SaveGaps(wtbl, QueryCheckGaps(dtbl, xtbl, wtbl), oks),
      gaps_num |-> Len(QueryCheckGaps(dtbl, xtbl, wtbl)) ]

(***************************************************************************)
(* The state.                                                              *)
(***************************************************************************)
VARIABLES
    delivery,       \* table wheeck.delivery
    discard,        \* table wheeck.delivery_discard
    warning,        \* table wheeck.delivery_warning
    fs,             \* the files: [dir, name, pages], pages the texts read so far
    pc,             \* "idle", "run" (inside run()) or "scan" (inside doc_scanner)
    run_docs,       \* run(): the names still to visit, in sorted order
    scan,           \* doc_scanner: [name, doc_pages, working_page, number]
    ret,            \* how the last call of doc_scanner ended
    last,           \* the last page processed: its inputs and what was done for it
    scans, edits,   \* counters that bound the behaviours
    faulty,         \* whether writes to the store may report no affected row
    sim,            \* check_similarity on its own: [record, enum, result]
    sweep,          \* check_gaps: the sweeps made and what the last one did
    iso,            \* discard_doc on its own: [base, page, name, depth]
    query           \* Querier.run on its own: the call it made on the cursor

vars == <<delivery, discard, warning, fs, pc, run_docs, scan, ret, last,
          scans, edits, faulty, sim, sweep, iso, query>>

\* A file is in a directory, has a name and has pages.  The text of a page is
\* fixed the first time the page is read; until then it is None.
File(dir, name, pages) == [dir |-> dir, name |-> name, pages |-> pages]

\* Writing a file replaces the file of that name in that directory.
Put(files, f) == {g \in files : ~(g.dir = f.dir /\ g.name = f.name)} \cup {f}

NoScan == [name |-> FileName("", <<>>, ""), doc_pages |-> 0, working_page |-> 0, number |-> 0]
NoRet == [kind |-> "none", exc |-> "", pages |-> 0, discarded |-> 0]
\* last: the page processed last (page 0: none yet), the tables as they were
\* before it, its context at the end, and the city and the fate of the page
\* processed before it.
NoPage == [city |-> None, persisted |-> FALSE]
NoLast ==
    [ page |-> 0, name |-> FileName("", <<>>, ""),
      text |-> Text(None, None, None, None, None),
      before |-> [delivery |-> <<>>, discard |-> <<>>, warning |-> <<>>],
      c |-> PageContext(FileName("", <<>>, ""), 0, <<>>, <<>>, <<>>),
      prev |-> NoPage ]
NoSim == [record |-> <<>>, enum |-> <<>>, result |-> None]
\* sweep: the number of calls of check_gaps, and for the last one the
\* delivery and discard tables it read, the rows of its query, the warning
\* table before and after it, and what it returned.
NoSweep ==
    [ n |-> 0, delivery |-> <<>>, discard |-> <<>>, rows |-> <<>>,
      before |-> <<>>, after |-> <<>>, ret |-> 0 ]

\* query: the arguments Querier.run was given and the parameters it passed
\* to cursor.execute (issued FALSE: no call yet).
NoQuery == [issued |-> FALSE, args |-> <<>>, bound |-> FALSE, params |-> <<>>]

InitStore ==
    /\ query = NoQuery
    /\ delivery = <<>> /\ discard = <<>> /\ warning = <<>>
    /\ fs = {}
    /\ pc = "idle" /\ run_docs = <<>> /\ scan = NoScan /\ ret = NoRet
    /\ last = NoLast
    /\ scans = 0 /\ edits = 0
    /\ sweep = NoSweep

\* iso: a page of a document, and the name of the file it is in after depth
\* isolations.
NoIso == [base |-> "", page |-> 0, name |-> FileName("", <<>>, ""), depth |-> 0]

Init == InitStore /\ faulty = FALSE /\ sim = NoSim /\ iso = NoIso

(***************************************************************************)
(* The environment: files arrive in the working directory, isolated pages  *)
(* are fed again, and discard rows are corrected by hand.                  *)
(***************************************************************************)
InDir(dir) == {f \in fs : f.dir = dir}

\* A document named after one of bases arrives.
FeedFrom(bases) ==
    /\ pc = "idle"
    /\ \E base \in bases, n \in 1..MaxPages :
           /\ \A f \in fs : f.name.base # base
           /\ base \in OtherBases => n = 1
           /\ fs' = fs \cup {File("working", FileName(base, <<>>, "pdf"),
                                  [p \in 1..n |-> None])}
    /\ UNCHANGED <<delivery, discard, warning, pc, run_docs, scan, ret, last,
                   scans, edits, faulty, sim, sweep, iso, query>>

Feed == FeedFrom(DdtBases \cup OtherBases)

Refeed ==
    /\ pc = "idle"
    /\ \E f \in InDir("discarded") :
           /\ \A g \in InDir("working") : g.name # f.name
           /\ fs' = (fs \ {f}) \cup {File("working", f.name, f.pages)}
    /\ UNCHANGED <<delivery, discard, warning, pc, run_docs, scan, ret, last,
                   scans, edits, faulty, sim, sweep, iso, query>>

\* The values a hand correction gives to a column that is NULL.
Corrections ==
    [ company_name |-> {Some("ACME")}, delivery_city |-> {Some("MILANO")},
      quantity |-> {Some(3200)}, vehicle |-> {Some(V_AB123CD)},
      vehicle_driver |-> {Some(D_ROSSI)}, distance |-> {Some(0), Some(12)} ]

CorrectDiscard ==
    /\ pc = "idle" /\ edits < MaxEdits
    /\ \E i \in 1..Len(discard), k \in DOMAIN Corrections :
           /\ discard[i].status /\ discard[i][k] = None
           /\ \E v \in Corrections[k] : discard' = [discard EXCEPT ![i][k] = v]
    /\ edits' = edits + 1
    /\ UNCHANGED <<delivery, warning, fs, pc, run_docs, scan, ret, last,
                   scans, faulty, sim, sweep, iso, query>>

(***************************************************************************)
(* run(), lines 439-467.                                                   *)
(***************************************************************************)
RunStart ==
    /\ pc = "idle" /\ InDir("working") # {}
    /\ run_docs' = SortNames({f.name : f \in InDir("working")})
    /\ pc' = "run"
    /\ UNCHANGED <<delivery, discard, warning, fs, scan, ret, last,
                   scans, edits, faulty, sim, sweep, iso, query>>

\* A variant of RunSkip that gives the skipped file the working name (C23).
RunSkipRenames ==
    /\ pc = "run" /\ run_docs # <<>>
    /\ ~MatchesWorkingDoc(Head(run_docs))
    /\ LET doc == Head(run_docs)
           f == CHOOSE g \in InDir("working") : g.name = doc
       IN  fs' = Put(fs \ {f}, File("working", FileName(doc.base, doc.sfx, "recording.pdf"),
                                    f.pages))
    /\ run_docs' = Tail(run_docs)
    /\ UNCHANGED <<delivery, discard, warning, pc, scan, ret, last,
                   scans, edits, faulty, sim, sweep, iso, query>>

\* lines 446-448: a name outside the convention is skipped
RunSkip ==
    /\ pc = "run" /\ run_docs # <<>>
    /\ ~MatchesWorkingDoc(Head(run_docs))
    /\ run_docs' = Tail(run_docs)
    /\ UNCHANGED <<delivery, discard, warning, fs, pc, scan, ret, last,
                   scans, edits, faulty, sim, sweep, iso, query>>

\* lines 450-458: the file is renamed and doc_scanner is called with
\* working_doc = PATH_WORKING_DIR / "...", a pathlib.Path.  Line 103 of
\* doc_scanner reads working_doc.replace('.recording', ''): Path.replace
\* takes one argument, so the call raises TypeError, which ends run().
RunOpen ==
    /\ pc = "run" /\ run_docs # <<>>
    /\ MatchesWorkingDoc(Head(run_docs))
    /\ LET doc == Head(run_docs)
           f == CHOOSE g \in InDir("working") : g.name = doc
           working_doc == FileName(doc.base, doc.sfx, "recording.pdf")
       IN  fs' = Put(fs \ {f}, File("working", working_doc, f.pages))
    /\ ret' = [NoRet EXCEPT !.kind = "raised", !.exc = "TypeError"]
    /\ pc' = "idle" /\ run_docs' = <<>>
    /\ UNCHANGED <<delivery, discard, warning, scan, last,
                   scans, edits, faulty, sim, sweep, iso, query>>

\* line 469: job_begin is None when no name matched
RunEnd ==
    /\ pc = "run" /\ run_docs = <<>>
    /\ pc' = "idle"
    /\ UNCHANGED <<delivery, discard, warning, fs, run_docs, scan, ret, last,
                   scans, edits, faulty, sim, sweep, iso, query>>

(***************************************************************************)
(* doc_scanner called with the path as a string, as its comments describe *)
(* it: the path of a document named <name>.recording.pdf.                  *)
(***************************************************************************)
\* lines 100-118
ScanOpen ==
    /\ pc = "idle" /\ scans < MaxScans
    /\ \E f \in InDir("working") :
           /\ f.name.ext = "recording.pdf"
           /\ scan' = [name |-> f.name, doc_pages |-> Len(f.pages),
                       working_page |-> 1, number |-> 0]
    /\ pc' = "scan"
    /\ UNCHANGED <<delivery, discard, warning, fs, run_docs, ret, last,
                   scans, edits, faulty, sim, sweep, iso, query>>

\* page.get_textpage().get_text_bounded(): the text of the page, one of
\* texts when the page is read for the first time
PageText(name, working_page, texts) ==
    LET f == CHOOSE g \in InDir("working") : g.name = name
    IN  IF f.pages[working_page] = None THEN texts ELSE {Get(f.pages[working_page])}

\* the files after the page was read as text
Read(files, name, working_page, text) ==
    LET f == CHOOSE g \in files : g.dir = "working" /\ g.name = name
    IN  Put(files, [f EXCEPT !.pages[working_page] = Some(text)])

\* A variant of Save whose new file holds the page twice (C30).
RECURSIVE SaveDoubled(_, _, _)
SaveDoubled(files, saved, text) ==
    IF saved = {} THEN files
    ELSE LET n == CHOOSE m \in saved : TRUE
         IN  SaveDoubled(Put(files, File("discarded", n, <<Some(text), Some(text)>>)),
                         saved \ {n}, text)

\* discard_doc, lines 341-347: the files after the one-page documents named
\* in saved were written, each holding the page just read
RECURSIVE Save(_, _, _)
Save(files, saved, text) ==
    IF saved = {} THEN files
    ELSE LET n == CHOOSE m \in saved : TRUE
         IN  Save(Put(files, File("discarded", n, <<Some(text)>>)), saved \ {n}, text)

\* lines 122-315: one turn of the loop, for pages that hold one of texts and
\* services that give one of geos
ScanPageWith(texts, geos) ==
    /\ pc = "scan" /\ scan.working_page <= scan.doc_pages /\ scans < MaxScans
    /\ \E text \in PageText(scan.name, scan.working_page, texts),
          wx \in WarningOutcomes(faulty) :
       \E c1 \in {Extract(PageContext(scan.name, scan.working_page,
                                      delivery, discard, warning), text, wx)} :
       \E ks \in {DiscardChoices(c1, scan.name)} :
       \E k \in (IF ks = {} THEN {0} ELSE ks) :
       \E c2 \in {LookupDiscard(c1, scan.name, k)} :
       \E drv \in UnboundChoices(c2), geo \in GeoChoices(c2, geos) :
       \E c3 \in {DuplicateOrDistance(c2, drv, geo)} :
       \E w \in WriteOutcomes(faulty) :
       \E c4 \in {Persist(c3, w)} :
       \E c5 \in {Isolate(c4, scan.name, w)} :
       \E g \in GapChoices(c5) :
       \E c6 \in {GapCheck(c5, w, g)} :
                         /\ delivery' = c6.delivery
                         /\ discard' = c6.discard
                         /\ warning' = c6.warning
                         /\ fs' = Read(Save(fs, c6.saved, text), scan.name,
                                        scan.working_page, text)
                         /\ last' = [page |-> scan.working_page, name |-> scan.name,
                                     text |-> text,
                                     before |-> [delivery |-> delivery,
                                                 discard |-> discard,
                                                 warning |-> warning],
                                     c |-> c6,
                                     prev |-> IF last.page = 0 THEN NoPage
                                              ELSE [city |-> last.c.dl.delivery_city,
                                                    persisted |-> Len(last.c.delivery)
                                                        > Len(last.before.delivery)]]
                         /\ IF c6.exc # None
                            THEN /\ pc' = "idle"
                                 /\ ret' = [NoRet EXCEPT !.kind = "raised", !.exc = Get(c6.exc)]
                                 /\ scan' = NoScan
                            ELSE /\ pc' = pc
                                 /\ ret' = ret
                                 /\ scan' = [scan EXCEPT
                                       !.working_page = @ + 1,
                                       !.number = IF c6.restarted THEN @ + 1 ELSE @]
    /\ scans' = scans + 1
    /\ UNCHANGED <<run_docs, edits, faulty, sim, sweep, iso, query>>

ScanPage == ScanPageWith(DocumentTexts, GeoOutcomes)

\* lines 317-319
ScanReturn ==
    /\ pc = "scan" /\ scan.working_page > scan.doc_pages
    /\ ret' = [NoRet EXCEPT !.kind = "returned", !.pages = scan.doc_pages,
                            !.discarded = scan.number]
    /\ pc' = "idle" /\ scan' = NoScan
    /\ UNCHANGED <<delivery, discard, warning, fs, run_docs, last,
                   scans, edits, faulty, sim, sweep, iso, query>>

Next ==
    \/ Feed \/ Refeed \/ CorrectDiscard
    \/ RunStart \/ RunSkip \/ RunOpen \/ RunEnd
    \/ ScanOpen \/ ScanPage \/ ScanReturn

Spec == Init /\ [][Next]_vars

(***************************************************************************)
(* check_similarity on its own: a token and a canonical list are given,    *)
(* and the function is applied to them once.                               *)
(***************************************************************************)
Alphabet == {"A", "B", "C"}
Strings(n) == UNION {[1..m -> Alphabet] : m \in 1..n}
Lists(n) == UNION {[1..m -> Strings(MaxLen)] : m \in 0..n}

SimInit ==
    /\ InitStore /\ faulty = FALSE /\ iso = NoIso
    /\ \E record \in Strings(MaxLen), enum \in Lists(MaxEnum) :
           sim = [record |-> record, enum |-> enum, result |-> None]

CheckSimilarity ==
    /\ sim.result = None
    /\ sim' = [sim EXCEPT !.result = Some(check_similarity(sim.record, sim.enum))]
    /\ UNCHANGED <<delivery, discard, warning, fs, pc, run_docs, scan, ret, last,
                   scans, edits, faulty, sweep, iso, query>>

SimNext == CheckSimilarity

SimSpec == SimInit /\ [][SimNext]_vars

(***************************************************************************)
(* Properties.  They speak of the page processed last: the rows it added   *)
(* to a table are those beyond the length the table had before it.         *)
(***************************************************************************)
Processed == last.page > 0
Completed == Processed /\ last.c.exc = None
Added(table) == SubSeq(last.c[table], Len(last.before[table]) + 1, Len(last.c[table]))
Canonical(value, enum) == value # None /\ Get(value) \in Range(enum)

\* The conversion of the document number rule, or of the quantity rule,
\* raises on the text: the extraction ends there with ValueError.
DocRaises(text) ==
    /\ text.doc # None
    /\ IntRejects(Get(text.doc).number) \/ StrptimeRejects(Get(text.doc).date)

QuantityRaises(text) == text.qty # None /\ IntRejects(Get(text.qty))

ExtractionRaises(text) == DocRaises(text) \/ QuantityRaises(text)

\* C1: after any sequence of scans, re-scans and re-feeds, no two persisted
\* delivery records have the same (document_source, page_number), and no two
\* have the same (document_number, document_genre, year of document_date).
C1_UniqueDeliveries ==
    \A i, j \in 1..Len(delivery) :
        i < j =>
            /\ ~(/\ delivery[i].document_source = delivery[j].document_source
                 /\ delivery[i].page_number = delivery[j].page_number)
            /\ ~(/\ delivery[i].document_number = delivery[j].document_number
                 /\ delivery[i].document_genre = delivery[j].document_genre
                 /\ Get(delivery[i].document_date).y = Get(delivery[j].document_date).y)

\* Two records are stored and the page processed last was turned down as a duplicate.
C1_Witness ==
    /\ Len(delivery) >= 2
    /\ Processed /\ last.c.duplicate
    /\ Added("delivery") = <<>>

\* C2 as stated: a page on which the four rules succeed and that duplicates
\* no record adds exactly one delivery record and no warning message.
C2_AsStated ==
    (/\ Processed /\ last.c.extract_errors = <<>> /\ ~ExtractionRaises(last.text)
     /\ ~last.c.duplicate) =>
        /\ Len(Added("delivery")) = 1
        /\ Added("warning") = <<>>

\* The page processed last came from a file that is itself an isolated page.
Isolated == MatchesDiscardDoc(WorkingDocName(last.name))

\* C3 as stated, for the pages of a document that is not itself an isolated
\* page: a page with a failed rule adds a discard record and a DISCARD
\* message and is written to its own file <base>_P<page, 3 digits>.pdf.
C3_AsStated ==
    (Processed /\ ~Isolated /\ last.c.extract_errors # <<>>) =>
        /\ Len(Added("discard")) = 1
        /\ \E i \in 1..Len(Added("warning")) : Added("warning")[i].genre = "DISCARD"
        /\ IsolatedName(last.name, last.page) \in last.c.saved

\* C4 as stated: a page found to be a duplicate adds no row to the
\* delivery, discard and warning tables and carries the sentinel -1.
C4_AsStated ==
    (Processed /\ last.c.duplicate) =>
        /\ Added("delivery") = <<>>
        /\ Added("discard") = <<>>
        /\ Added("warning") = <<>>
        /\ last.c.dl.id_warning_message = Some(-1)

\* The extracted-data columns of a delivery record.
DataColumns == DiscardColumns \ {"id_warning_message"}

\* The open discard rows with no null field of the isolated page processed last.
FullDiscards ==
    LET n == WorkingDocName(last.name)
    IN  {k \in OpenDiscards(last.before.discard, DiscardDocSource(n), DiscardPageNumber(n)) :
            NoneNotIn(last.before.discard[k])}

\* C5 as stated: when an isolated page is scanned again and an open discard
\* record of its original page has no null field, a delivery record with the
\* values of such a record is stored and that record's message is resolved.
C5_AsStated ==
    (Processed /\ Isolated /\ FullDiscards # {}) =>
        \E k \in FullDiscards :
            /\ Len(Added("delivery")) = 1
            /\ \A col \in DataColumns : Added("delivery")[1][col] = last.before.discard[k][col]
            /\ ~last.c.warning[Get(last.before.discard[k].id_warning_message)].status

\* C6: every stored delivery record has a document number, a quantity and a
\* vehicle; a page left without one of them after extraction and the lookup
\* of its discard record is not inserted.
C6_RequiredFields ==
    /\ \A i \in 1..Len(delivery) :
           /\ delivery[i].document_number # None
           /\ delivery[i].quantity # None
           /\ delivery[i].vehicle # None
    /\ (/\ Processed
        /\ \/ last.c.dl.document_number = None
           \/ last.c.dl.quantity = None
           \/ last.c.dl.vehicle = None) => Added("delivery") = <<>>

\* A page without its quantity was processed, with records already stored.
C6_Witness ==
    /\ Processed /\ last.c.dl.quantity = None
    /\ Len(last.before.delivery) >= 1
    /\ Len(Added("discard")) = 1

\* The calls to the geocoding and routing services made for the last page.
GeoCalls == {i \in 1..Len(last.c.trace) : last.c.trace[i] \in {"geo.search", "geo.route"}}

\* C7 as stated: of two pages processed one after the other with the same
\* city, the second makes no call to the geocoding or routing service.
C7_AsStated ==
    (Processed /\ last.prev.city # None /\ last.c.dl.delivery_city = last.prev.city) =>
        GeoCalls = {}

\* C7, amended: of two pages processed one after the other with the same
\* city, the second makes no call to the services when the first was stored
\* as a delivery record and the stored records of that city all carry the
\* same distance (null counting as a distance).
C7_DistanceCache ==
    (/\ Processed /\ last.prev.city # None /\ last.c.dl.delivery_city = last.prev.city
     /\ last.prev.persisted
     /\ Cardinality(DistancesOf(last.before.delivery, last.prev.city)) = 1) =>
        GeoCalls = {}

\* The second page took its distance from the stored record of the first.
C7_Witness ==
    /\ Processed /\ last.prev.city # None /\ last.c.dl.delivery_city = last.prev.city
    /\ last.prev.persisted
    /\ last.c.cache = "hit" /\ GeoCalls = {}
    /\ Len(Added("delivery")) = 1

\* The distance resolution of the last page was ended by an exception of a
\* handler of the services.
ResolutionRaised ==
    /\ last.c.exc # None /\ last.c.trace # <<>>
    /\ last.c.trace[Len(last.c.trace)] \in {"geo.search", "geo.route"}

\* C8 as stated: the delay is made exactly once for every page whose
\* distance lookup missed, after the calls of the resolution and before any
\* insert of the page; it is never made for a page whose lookup hit or that
\* had no lookup.
C8_AsStated ==
    Processed =>
        LET t == last.c.trace
            sleeps == {i \in 1..Len(t) : t[i] = "sleep"}
        IN  /\ last.c.cache # "miss" => sleeps = {}
            /\ last.c.cache = "miss" =>
                   /\ Cardinality(sleeps) = 1
                   /\ \A i \in sleeps, j \in 1..Len(t) :
                          /\ t[j] \in {"QUERY_GET_DISTANCE", "geo.search", "geo.route"} => j < i
                          /\ t[j] \in {"QUERY_INSERT_DELIVERY", "QUERY_INSERT_DISCARD"} => i < j

\* C9 as stated: a failure of the geocoding or routing service is not raised
\* to the page; the page, if no rule failed, is stored with a null distance.
C9_AsStated ==
    (Processed /\ last.c.geo_failed) =>
        /\ ~ResolutionRaised
        /\ last.c.extract_errors = <<>> =>
               /\ Len(Added("delivery")) = 1
               /\ Added("delivery")[1].distance = None

\* C10 as stated: check_similarity gives a canonical value of greatest ratio
\* when that ratio is above 0.5 and the token itself otherwise, so also when
\* every ratio is exactly 0.5 and when there is no canonical value.
C10_AsStated ==
    sim.result # None =>
        LET keys == Range(sim.enum)
            ratio(k) == Ratio(k, sim.record)
            above == {k \in keys : 2 * ratio(k)[1] > ratio(k)[2]}
        IN  IF above # {}
            THEN /\ Get(sim.result) \in keys
                 /\ \A m \in keys : ~RatioLess(ratio(Get(sim.result)), ratio(m))
            ELSE Get(sim.result) = sim.record

\* The messages of genre WARNING the last page added for a field.
WarningsOf(field) ==
    {i \in 1..Len(Added("warning")) :
        /\ Added("warning")[i].genre = "WARNING"
        /\ Added("warning")[i].args.genre = field}

\* C11: on a page whose extraction got to the vehicle rule, whose vehicle
\* rule matched and whose record was not taken from a discard record, the vehicle rule is not among the failed rules; a
\* WARNING message for the vehicle is added exactly when the resolved vehicle
\* is outside the canonical vehicles, and the vehicle is then the raw token;
\* one for the driver is added exactly when the resolved driver is null or
\* outside the canonical drivers; each message carries the resolved value;
\* and with no rule failed and no duplicate, a page whose processing is not
\* ended by an exception is stored with the resolved vehicle and driver.
C11_WarningNotDiscard ==
    (/\ Processed /\ last.text.veh # None /\ ~last.c.charged
     /\ ~ExtractionRaises(last.text)) =>
        LET dl == last.c.dl
            new == Added("warning")
        IN  /\ "PATTERN_VEHICLE" \notin Range(last.c.extract_errors)
            /\ Cardinality(WarningsOf("vehicle")) =
                   IF Canonical(dl.vehicle, vehicles_enum) THEN 0 ELSE 1
            /\ Cardinality(WarningsOf("driver")) =
                   IF Canonical(dl.vehicle_driver, drivers_enum) THEN 0 ELSE 1
            /\ ~Canonical(dl.vehicle, vehicles_enum) =>
                   dl.vehicle = Some(Get(last.text.veh).vehicle)
            /\ \A i \in WarningsOf("vehicle") : new[i].args.record = dl.vehicle
            /\ \A i \in WarningsOf("driver") : new[i].args.record = dl.vehicle_driver
            /\ (Completed /\ last.c.extract_errors = <<>> /\ ~last.c.duplicate) =>
                   /\ Len(Added("delivery")) = 1
                   /\ Added("delivery")[1].vehicle = dl.vehicle
                   /\ Added("delivery")[1].vehicle_driver = dl.vehicle_driver

\* A page with a vehicle token close to no canonical vehicle was stored with
\* the token as its vehicle, and a WARNING message was added for it.
C11_Witness ==
    /\ Completed /\ last.text.veh # None /\ last.c.extract_errors = <<>>
    /\ last.c.dl.vehicle = Some(V_ZZ000ZZ)
    /\ Len(Added("delivery")) = 1
    /\ Added("delivery")[1].vehicle = Some(V_ZZ000ZZ)
    /\ WarningsOf("vehicle") # {}

\* C12 as stated: a page with failed rules does not end the scan of its
\* document: the page is written to its own file and its processing is not
\* ended by an exception, so the scan goes on to the next page.
C12_AsStated ==
    (Processed /\ last.c.extract_errors # <<>>) =>
        /\ last.c.exc = None
        /\ IsolatedName(last.name, last.page) \in last.c.saved

\* C13 as stated: when the DISCARD message is asked for a failed page whose
\* document number, genre or date was not extracted, the message is added.
C13_AsStated ==
    (/\ Processed
     /\ \E i \in 1..Len(last.c.trace) : last.c.trace[i] = "save_warning DISCARD"
     /\ \/ last.c.dl.document_number = None
        \/ last.c.dl.document_genre = None
        \/ last.c.dl.document_date = None) =>
        \E i \in 1..Len(Added("warning")) :
            /\ Added("warning")[i].genre = "DISCARD"
            /\ Added("warning")[i].args.document_number = last.c.dl.document_number

(***************************************************************************)
(* The same program with a store whose writes may report no affected row.  *)
(***************************************************************************)
FaultInit == InitStore /\ faulty = TRUE /\ sim = NoSim /\ iso = NoIso

\* A page that passes the four rules and one whose quantity rule fails; the
\* services find the city and give the distance.
FaultTexts ==
    { Text(GoodDoc, GoodCity, None, Some(3200), GoodVeh),
      Text(GoodDoc, GoodCity, None, None, GoodVeh) }
GeoFound == {[search |-> "found", route |-> "ok", km |-> k] : k \in Kms}

FaultScanPage == ScanPageWith(FaultTexts, GeoFound)

FaultNext ==
    \/ Feed \/ Refeed
    \/ RunStart \/ RunSkip \/ RunOpen \/ RunEnd
    \/ ScanOpen \/ FaultScanPage \/ ScanReturn

FaultSpec == FaultInit /\ [][FaultNext]_vars

\* The calls of the last page to one statement or function.
Calls(what) == {i \in 1..Len(last.c.trace) : last.c.trace[i] = what}

\* The insert of the last page's delivery record was run and reported no row.
InsertFailed == Processed /\ Calls("QUERY_INSERT_DELIVERY") # {} /\ Added("delivery") = <<>>

\* C14 as stated, for a page whose DISCARD message and discard record are
\* written: when the insert of the delivery record reports no row it is run
\* once, the message names INSERT_DELIVERY, the page is written to its own
\* file and the count of discarded pages is incremented.
C14_AsStated ==
    (InsertFailed /\ Len(Added("discard")) = 1) =>
        /\ Cardinality(Calls("QUERY_INSERT_DELIVERY")) = 1
        /\ \E i \in 1..Len(Added("warning")) :
               /\ Added("warning")[i].genre = "DISCARD"
               /\ Added("warning")[i].args.pattern = <<"INSERT_DELIVERY">>
        /\ IsolatedName(last.name, last.page) \in last.c.saved
        /\ last.c.restarted

\* For the last page the DISCARD message was asked, its text could be
\* rendered, and the insert of the message or of the discard record
\* reported no row.
DiscardWriteFailed ==
    /\ Processed /\ Calls("save_warning DISCARD") # {}
    /\ last.c.dl.document_number # None
    /\ \/ last.c.dl.id_warning_message = Some(-1)
       \/ Calls("QUERY_INSERT_DISCARD") # {} /\ Added("discard") = <<>>

\* C15 as stated: when the write of the DISCARD message or of the discard
\* record fails, the page is still written to its own file and counted as
\* discarded, and its processing is not ended by an exception.
C15_AsStated ==
    DiscardWriteFailed =>
        /\ IsolatedName(last.name, last.page) \in last.c.saved
        /\ last.c.restarted
        /\ last.c.exc = None

\* The open discard rows, as they were before the last page, of the
\* original page of the isolated page processed last.
OpenBefore ==
    LET n == WorkingDocName(last.name)
    IN  OpenDiscards(last.before.discard, DiscardDocSource(n), DiscardPageNumber(n))

\* C16: when an isolated page is scanned again with a rule failed again and
\* the open discard records of its original page each have a null field,
\* no delivery record is stored, the page carries the message id of one of
\* those records, and no DISCARD message and no discard record are added.
C16_NoSecondDiscard ==
    (/\ Processed /\ Isolated /\ last.c.extract_errors # <<>>
     /\ OpenBefore # {}
     /\ \A k \in OpenBefore : ~NoneNotIn(last.before.discard[k])) =>
        /\ Added("delivery") = <<>>
        /\ \E k \in OpenBefore :
               last.c.dl.id_warning_message = last.before.discard[k].id_warning_message
        /\ \A i \in 1..Len(Added("warning")) : Added("warning")[i].genre # "DISCARD"
        /\ Added("discard") = <<>>
        /\ Calls("save_warning DISCARD") = {}

\* An isolated page that was isolated again was scanned a third time: there
\* is still one discard record and one DISCARD message for it.
C16_Witness ==
    /\ Processed /\ Isolated /\ last.c.extract_errors # <<>>
    /\ Len(WorkingDocName(last.name).sfx) = 2
    /\ last.c.carried
    /\ Len(discard) = 1
    /\ Cardinality({i \in 1..Len(warning) : warning[i].genre = "DISCARD"}) = 1
    /\ Cardinality(OpenBefore) = 1

\* C17 as stated: when an isolated page whose original page has open
\* discard records is scanned again and a delivery record is stored for it,
\* the message of one of those discard records is resolved.
C17_AsStated ==
    (Processed /\ Isolated /\ OpenBefore # {} /\ Len(Added("delivery")) = 1) =>
        \E k \in OpenBefore :
            ~last.c.warning[Get(last.before.discard[k].id_warning_message)].status

\* The open discard rows, as they are after the last page, of the original
\* page of the isolated page processed last.
OpenAfter ==
    LET n == WorkingDocName(last.name)
    IN  OpenDiscards(last.c.discard, DiscardDocSource(n), DiscardPageNumber(n))

\* C18 as stated: when an isolated page is scanned again, a rule fails
\* again, an open discard record of its original page has no null field and
\* a delivery record is stored for the page, one of the discard records
\* that were open is open no longer.
C18_AsStated ==
    (/\ Processed /\ Isolated /\ last.c.extract_errors # <<>>
     /\ FullDiscards # {} /\ Len(Added("delivery")) = 1) =>
        \E k \in OpenBefore : k \notin OpenAfter

(***************************************************************************)
(* Documents whose numbers leave a gap, and the sweep.  check_gaps is      *)
(* called as run() calls it at line 471, between two scans.                *)
(***************************************************************************)
MaxSweeps == 2      \* most calls of check_gaps over a behaviour

\* Pages of the documents 1, 2 and 3 of 2024 that pass the four rules, and a
\* page of document 2 whose quantity rule fails.
GapTexts ==
    { Text(GoodDoc, GoodCity, None, Some(3200), GoodVeh),
      Text(Doc(2, "TA", Date(2024, 1)), GoodCity, None, Some(3200), GoodVeh),
      Text(Doc(3, "TA", Date(2024, 1)), GoodCity, None, Some(3200), GoodVeh),
      Text(Doc(2, "TA", Date(2024, 1)), GoodCity, None, None, GoodVeh) }

GapFeed == FeedFrom(ConventionBases)

GapScanPage == ScanPageWith(GapTexts, GeoFound)

\* check_gaps(), lines 380-388
CheckGaps ==
    /\ pc = "idle" /\ sweep.n < MaxSweeps
    /\ \E oks \in SweepOutcomes(faulty, Len(QueryCheckGaps(delivery, discard, warning))) :
       \E r \in {check_gaps(delivery, discard, warning, oks)} :
           /\ warning' = r.warning
           /\ sweep' = [n |-> sweep.n + 1, delivery |-> delivery, discard |-> discard,
                        rows |-> r.rows, before |-> warning,
                        after |-> r.warning, ret |-> r.gaps_num]
    /\ UNCHANGED <<delivery, discard, fs, pc, run_docs, scan, ret, last,
                   scans, edits, faulty, sim, iso, query>>

GapNext ==
    \/ GapFeed
    \/ RunStart \/ RunSkip \/ RunOpen \/ RunEnd
    \/ ScanOpen \/ GapScanPage \/ ScanReturn
    \/ CheckGaps

GapSpec == Init /\ [][GapNext]_vars

\* The messages the last sweep added.
Swept == SubSeq(sweep.after, Len(sweep.before) + 1, Len(sweep.after))

\* The gaps the last sweep had to report: those of the deliveries it read
\* that are no known discard and had no open GAP message.
NewGaps ==
    {g \in DeliveryGap(sweep.delivery, sweep.discard) :
        /\ ~g.is_discard
        /\ \A i \in 1..Len(sweep.before) :
               ~(/\ sweep.before[i].genre = "GAP" /\ sweep.before[i].status
                 /\ sweep.before[i].args.document_number = Some(g.document_number)
                 /\ sweep.before[i].args.document_year = Some(g.document_year))}

\* C20 as stated: a sweep adds open GAP messages only, exactly one for each
\* gap that is no known discard and has no open GAP message yet and none for
\* anything else, and it returns the number of messages it added.
C20_AsStated ==
    sweep.n > 0 =>
        /\ \A i \in 1..Len(Swept) : Swept[i].genre = "GAP" /\ Swept[i].status
        /\ \A g \in NewGaps :
               Cardinality({i \in 1..Len(Swept) :
                   /\ Swept[i].args.document_number = Some(g.document_number)
                   /\ Swept[i].args.document_year = Some(g.document_year)}) = 1
        /\ \A i \in 1..Len(Swept) :
               \E g \in NewGaps :
                   /\ Swept[i].args.document_number = Some(g.document_number)
                   /\ Swept[i].args.document_year = Some(g.document_year)
        /\ sweep.ret = Len(Swept)

\* The GAP messages that were open before the last page for the document
\* number and year the page carries.
GapsOfPage ==
    OpenGaps(last.before.warning, last.c.dl.document_number, YearOf(last.c.dl))

\* C19 as stated: for a processed page that carries a document number and a
\* date, whatever became of the page, an open GAP message of that number
\* and year is resolved, and every other GAP message keeps its status.
C19_AsStated ==
    (Processed /\ last.c.dl.document_number # None /\ last.c.dl.document_date # None) =>
        /\ \A i \in GapsOfPage : ~last.c.warning[i].status
        /\ \A i \in 1..Len(last.before.warning) :
               (last.before.warning[i].genre = "GAP" /\ i \notin GapsOfPage) =>
                   last.c.warning[i].status = last.before.warning[i].status

\* The rows of a table as it was are the first rows of the table as it is.
StartsWith(now, was) == Len(was) <= Len(now) /\ SubSeq(now, 1, Len(was)) = was

\* A step in which doc_scanner is ended by an exception.
ScanAborts == pc = "scan" /\ pc' = "idle" /\ ret'.kind = "raised"

\* C21: a step in which the scan of a document is ended by an exception
\* leaves every row that the three tables held before the page unchanged
\* and in place.
C21_CommittedStay ==
    [][ScanAborts =>
           /\ StartsWith(delivery', delivery)
           /\ StartsWith(discard', discard)
           /\ StartsWith(warning', warning)]_vars

\* The scan was ended by an exception on the second page of a document
\* whose first page had been stored; the stored record is still there.
C21_Witness ==
    /\ Processed /\ last.c.exc # None /\ last.page = 2
    /\ pc = "idle" /\ ret.kind = "raised"
    /\ Len(last.before.delivery) >= 1
    /\ last.before.delivery[Len(last.before.delivery)].document_source = WorkingDocName(last.name)
    /\ StartsWith(delivery, last.before.delivery)
(***************************************************************************)
(* The names of isolated pages on their own: discard_doc names the file of *)
(* page p of a document, and of the single page of that file when it is    *)
(* isolated again; PATTERN_WORKING_DOC and PATTERN_DISCARD_DOC read the    *)
(* names.                                                                  *)
(***************************************************************************)
MaxNamePage == 1000     \* greatest page number isolated
MaxDepth == 2           \* most isolations in a row of one page

NameInit ==
    /\ query = NoQuery
    /\ delivery = <<>> /\ discard = <<>> /\ warning = <<>>
    /\ pc = "idle" /\ run_docs = <<>> /\ scan = NoScan /\ ret = NoRet
    /\ last = NoLast /\ scans = 0 /\ edits = 0 /\ sweep = NoSweep
    /\ faulty = FALSE /\ sim = NoSim
    /\ \E base \in ConventionBases, p \in 1..MaxNamePage :
           /\ iso = [base |-> base, page |-> p,
                     name |-> FileName(base, <<>>, "pdf"), depth |-> 0]
           /\ fs = {File("working", FileName(base, <<>>, "recording.pdf"),
                         [i \in 1..p |-> None])}

\* discard_doc(working_doc, working_page) on <name>.recording.pdf, a document
\* of the working directory, for page iso.page of the document and for the
\* one page of an isolated file: the page is written to a new file of the
\* discarded directory (lines 341-345) and the document stays as it is.
IsolateName ==
    /\ pc = "idle" /\ iso.depth < MaxDepth
    /\ LET working_doc == FileName(iso.name.base, iso.name.sfx, "recording.pdf")
           working_page == IF iso.depth = 0 THEN iso.page ELSE 1
           discarded_doc == IsolatedName(working_doc, working_page)
       IN  /\ \E doc \in InDir("working") :
                  /\ doc.name = working_doc /\ working_page <= Len(doc.pages)
                  /\ fs' = Put(fs, File("discarded", discarded_doc,
                                        <<doc.pages[working_page]>>))
           /\ iso' = [iso EXCEPT !.name = discarded_doc, !.depth = @ + 1]
    /\ UNCHANGED <<delivery, discard, warning, pc, run_docs, scan, ret, last,
                   scans, edits, faulty, sim, sweep, query>>

\* Between two isolations the isolated file is put in the working directory
\* again (Refeed) and run() is called: it passes over a name that
\* PATTERN_WORKING_DOC rejects and gives the others the name
\* <name>.recording.pdf (lines 446-455).
NameNext ==
    \/ IsolateName
    \/ Refeed
    \/ RunStart \/ RunSkip \/ RunOpen \/ RunEnd

NameSpec == NameInit /\ [][NameNext]_vars

\* The name of an isolated page is read back to the document and the page.
ReadsBack ==
    /\ MatchesWorkingDoc(iso.name)
    /\ MatchesDiscardDoc(iso.name)
    /\ DiscardDocSource(iso.name) = FileName(iso.base, <<>>, "pdf")
    /\ DiscardPageNumber(iso.name) = iso.page

\* C22 as stated: for every document base name and every page number p, the
\* name of the file of the isolated page p is accepted by the document naming
\* convention and is read by the discard pattern back to <base>.pdf and p,
\* also after the page has been isolated again.
C22_AsStated == iso.depth >= 1 => ReadsBack
\* run() is at a file whose name is outside the naming convention.
AtForeignDoc == pc = "run" /\ run_docs # <<>> /\ ~MatchesWorkingDoc(Head(run_docs))

\* C23: when run() is at a file of the working directory whose name does not
\* match the document naming convention, its step leaves every file where it
\* is and as it is named, scans no page, writes nothing to the three tables,
\* raises nothing, and the run goes on with the next file of the listing.
C23_ForeignSkipped ==
    [][AtForeignDoc =>
           /\ fs' = fs
           /\ delivery' = delivery /\ discard' = discard /\ warning' = warning
           /\ scan' = scan /\ scans' = scans /\ last' = last
           /\ ret' = ret
           /\ pc' = "run" /\ run_docs' = Tail(run_docs)]_vars

\* run() has skipped a file whose name is outside the convention (it is in
\* the working directory under that name and no longer in the listing) and is
\* at the next file, whose name is inside the convention.
C23_Witness ==
    /\ pc = "run" /\ run_docs # <<>>
    /\ MatchesWorkingDoc(Head(run_docs))
    /\ \E f \in InDir("working") :
           /\ ~MatchesWorkingDoc(f.name)
           /\ \A i \in 1..Len(run_docs) : run_docs[i] # f.name
           /\ LexLess(NameKey(f.name), NameKey(Head(run_docs)))
\* The delivery date of a row is its document date.
DatesAgree(r) == r.delivery_date = r.document_date

\* C24: every row of the delivery table and every row of the discard table
\* has delivery_date equal to document_date, whichever way it was written,
\* the rows copied from a corrected discard row included.
C24_DeliveryDateIsDocumentDate ==
    /\ \A i \in 1..Len(delivery) : DatesAgree(delivery[i])
    /\ \A i \in 1..Len(discard) : DatesAgree(discard[i])

\* The page processed last failed a rule again, took its fields from a
\* corrected discard row and was stored as a delivery; the discard row and the
\* delivery row hold the same date twice.
C24_Witness ==
    /\ Processed /\ last.c.charged /\ last.c.extract_errors # <<>>
    /\ Len(Added("delivery")) = 1
    /\ Added("delivery")[1].delivery_date # None
    /\ DatesAgree(Added("delivery")[1])
    /\ \E i \in 1..Len(discard) :
           /\ discard[i].document_date = Added("delivery")[1].document_date
           /\ DatesAgree(discard[i])
(***************************************************************************)
(* The extraction on its own, lines 124-232: a page with one of PageTexts  *)
(* is read and the four rules are applied to it.                           *)
(***************************************************************************)
ExtractInit ==
    /\ delivery = <<>> /\ discard = <<>> /\ warning = <<>>
    /\ run_docs = <<>> /\ ret = NoRet /\ last = NoLast
    /\ scans = 0 /\ edits = 0 /\ sweep = NoSweep /\ sim = NoSim /\ iso = NoIso
    /\ query = NoQuery
    /\ pc = "scan"
    /\ faulty \in BOOLEAN
    /\ \E base \in ConventionBases, n \in 1..MaxPages :
           /\ fs = {File("working", FileName(base, <<>>, "recording.pdf"),
                         [p \in 1..n |-> None])}
           /\ scan = [name |-> FileName(base, <<>>, "recording.pdf"), doc_pages |-> n,
                      working_page |-> 1, number |-> 0]

ExtractPage ==
    /\ pc = "scan" /\ last.page = 0
    /\ \E text \in PageText(scan.name, scan.working_page, PageTexts),
          w \in WarningOutcomes(faulty) :
       \E c1 \in {Extract(PageContext(scan.name, scan.working_page,
                                      delivery, discard, warning), text, w)} :
           /\ warning' = c1.warning
           /\ fs' = Read(fs, scan.name, scan.working_page, text)
           /\ last' = [page |-> scan.working_page, name |-> scan.name,
                       text |-> text,
                       before |-> [delivery |-> delivery, discard |-> discard,
                                   warning |-> warning],
                       c |-> c1, prev |-> NoPage]
    /\ UNCHANGED <<delivery, discard, pc, run_docs, scan, ret,
                   scans, edits, faulty, sim, sweep, iso, query>>

ExtractNext == ExtractPage

ExtractSpec == ExtractInit /\ [][ExtractNext]_vars

\* The names of the rules, in the order of the code.
RuleNames == <<"PATTERN_DOC_NUMBER", "PATTERN_CITY", "PATTERN_QUANTITY", "PATTERN_VEHICLE">>

\* Whether the pattern of the rule, or both patterns of the city rule, fail
\* on the text.
RuleFails(rule, text) ==
    CASE rule = "PATTERN_DOC_NUMBER" -> text.doc = None
      [] rule = "PATTERN_CITY" -> text.dx = None /\ text.sx = None
      [] rule = "PATTERN_QUANTITY" -> text.qty = None
      [] rule = "PATTERN_VEHICLE" -> text.veh = None

FailedRules(text) ==
    LET Fails(rule) == RuleFails(rule, text)
    IN  SelectSeq(RuleNames, Fails)

\* Every rule whose pattern matches the text has filled its fields.
MatchedRulesApplied(dl, text) ==
    /\ text.doc # None => dl.document_number = Some(Get(text.doc).number)
    /\ (text.dx # None \/ text.sx # None) => dl.delivery_city # None
    /\ text.qty # None => dl.quantity = text.qty
    /\ text.veh # None => dl.vehicle # None

\* C25 as stated: after the extraction of a page, every rule whose pattern
\* matches has filled its fields whatever the earlier rules found, and the accumulator
\* holds the names of the rules whose pattern did not match, each once, in
\* the order document number, city, quantity, vehicle; it is empty exactly
\* when all four matched.
C25_AsStated ==
    Processed =>
        /\ last.c.extract_errors = FailedRules(last.text)
        /\ MatchedRulesApplied(last.c.dl, last.text)
        /\ last.c.extract_errors = <<>> <=>
               \A i \in 1..Len(RuleNames) : ~RuleFails(RuleNames[i], last.text)

\* C26: on a page whose extraction gets to the city rule, the rule is
\* recorded as failed exactly when both the pattern of
\* the delivery block and the pattern of the departure block fail; the
\* departure block is used only when the delivery block fails, and a match
\* of either sets company_name and delivery_city and records no failure.
C26_CityFallback ==
    (Processed /\ ~DocRaises(last.text)) =>
        /\ "PATTERN_CITY" \in Range(last.c.extract_errors) <=>
               (last.text.dx = None /\ last.text.sx = None)
        /\ last.text.dx # None =>
               /\ last.c.dl.company_name = Some(Get(last.text.dx).company)
               /\ last.c.dl.delivery_city = Some(Get(last.text.dx).city)
        /\ (last.text.dx = None /\ last.text.sx # None) =>
               /\ last.c.dl.company_name = Some(Get(last.text.sx).company)
               /\ last.c.dl.delivery_city = Some(Get(last.text.sx).city)
        /\ (last.text.dx = None /\ last.text.sx = None) =>
               /\ last.c.dl.company_name = None
               /\ last.c.dl.delivery_city = None

\* The delivery block of a page failed and its departure block matched: the
\* company and the city are those of the departure block and the city rule
\* is not among the failed ones.
C26_Witness ==
    /\ Processed
    /\ last.text.dx = None /\ last.text.sx # None
    /\ last.c.dl.delivery_city = Some(Get(last.text.sx).city)
    /\ "PATTERN_CITY" \notin Range(last.c.extract_errors)

\* The driver name the vehicle pattern found on the page processed last.
RawDriver == Get(last.text.veh).driver

\* C27: on a page where the vehicle rule matches, vehicle_driver is a driver
\* of the roster or the driver the roster assigns to the resolved vehicle
\* (possibly none); a name off the roster that the similarity leaves as it
\* is, and a name that is the plate of the page or a plate of the roster, is
\* never stored as vehicle_driver.
C27_DriverCanonicalOrAssigned ==
    (Processed /\ last.text.veh # None) =>
        /\ \/ Canonical(last.c.dl.vehicle_driver, drivers_enum)
           \/ last.c.dl.vehicle_driver = AssignedDriver(last.c.dl.vehicle)
        /\ (RawDriver # None /\ Get(RawDriver) \notin Range(drivers_enum)
               /\ check_similarity(Get(RawDriver), drivers_enum) = Get(RawDriver)) =>
               last.c.dl.vehicle_driver # RawDriver
        /\ (RawDriver # None
               /\ \/ Get(RawDriver) = Get(last.text.veh).vehicle
                  \/ Get(RawDriver) \in Range(vehicles_enum)) =>
               last.c.dl.vehicle_driver # RawDriver

\* A page named a driver off the roster that the similarity left as it was,
\* with a plate of the roster: the driver stored is the one the roster
\* assigns to the plate, not the name of the page.
C27_Witness ==
    /\ Processed /\ last.text.veh # None
    /\ RawDriver = Some(D_XYZ)
    /\ check_similarity(D_XYZ, drivers_enum) = D_XYZ
    /\ last.c.dl.vehicle = Some(V_AB123CD)
    /\ last.c.dl.vehicle_driver = Some(D_ROSSI)
\* The files run() has still to take are in ascending order of name.
Ascending(docs) ==
    \A i, j \in 1..Len(docs) : i < j => LexLess(NameKey(docs[i]), NameKey(docs[j]))

\* Between two pages of a scan the store is as the page before left it, and
\* the files that page isolated are written.
PageBeforeIsDone ==
    (pc = "scan" /\ scan.working_page > 1) =>
        /\ last.page = scan.working_page - 1 /\ last.name = scan.name
        /\ delivery = last.c.delivery /\ discard = last.c.discard
        /\ warning = last.c.warning
        /\ \A n \in last.c.saved : \E f \in InDir("discarded") : f.name = n

\* A step of run() takes the first file of the listing; a step of a scan
\* takes the page after the one taken before, of the same document, from
\* the store as it is.
TakesNext ==
    /\ (pc = "run" /\ run_docs # <<>> /\ pc' = "run") => run_docs' = Tail(run_docs)
    /\ (pc = "scan" /\ last' # last) =>
           /\ last'.page = scan.working_page /\ last'.name = scan.name
           /\ last'.before = [delivery |-> delivery, discard |-> discard,
                              warning |-> warning]
    /\ (pc = "scan" /\ pc' = "scan") =>
           /\ scan'.name = scan.name
           /\ scan'.working_page = scan.working_page + 1

\* C28: within a run the files are taken in ascending order of name and,
\* within a document, the pages in increasing page number, one after the
\* other: every read and write of the store and the isolation of a page are
\* done before the next page is taken, and a document is done before the
\* next file is taken.
C28_InOrder ==
    /\ [](pc = "run" => Ascending(run_docs))
    /\ []PageBeforeIsDone
    /\ [][TakesNext]_vars

\* Page 2 of a document was processed after page 1 of the same document had
\* been stored as a delivery.
C28_Witness ==
    /\ Processed /\ last.page = 2
    /\ \E i \in 1..Len(last.before.delivery) :
           /\ last.before.delivery[i].document_source = WorkingDocName(last.name)
           /\ last.before.delivery[i].page_number = 1
\* A step that ends a run().
RunEnds == pc = "run" /\ pc' = "idle"

\* C29 as stated: every batch run executes the gap sweep exactly once, after
\* its last document and before it ends, and scans no page after it.
C29_AsStated == [][RunEnds => sweep'.n = sweep.n + 1]_vars
\* The file of that name in that directory.
FileAt(files, dir, name) == CHOOSE f \in files : f.dir = dir /\ f.name = name

\* The page of the scan is isolated by this step.
Isolates == pc = "scan" /\ last' # last /\ last'.c.saved # {}

\* The document has the pages it had, each where it was: a page already read
\* holds the text it held, and the page just read holds the text read.
SamePages(now, was, page, text) ==
    /\ Len(now.pages) = Len(was.pages)
    /\ \A q \in 1..Len(was.pages) :
           IF q = page /\ was.pages[q] = None THEN now.pages[q] = Some(text)
           ELSE now.pages[q] = was.pages[q]

\* C30: the step that isolates page p of a document leaves the document with
\* the same pages in the same order and number, so that no page still to be
\* scanned changes its number, and the new file holds page p and nothing
\* else.
C30_SourceUntouched ==
    [][Isolates =>
           /\ \E f \in InDir("working")' : f.name = scan.name
           /\ SamePages(FileAt(fs', "working", scan.name),
                        FileAt(fs, "working", scan.name),
                        scan.working_page, last'.text)
           /\ last'.c.saved = {IsolatedName(scan.name, scan.working_page)}
           /\ \E g \in InDir("discarded")' :
                  /\ g.name = IsolatedName(scan.name, scan.working_page)
                  /\ g.pages = <<Some(last'.text)>>]_vars

\* Page 1 of a document of two pages was isolated: the document still has its
\* two pages, the second not yet read, and the new file holds the text of
\* page 1 alone.
C30_Witness ==
    /\ Processed /\ last.page = 1 /\ last.c.saved # {}
    /\ \E f \in InDir("working") :
           /\ f.name = last.name /\ Len(f.pages) = 2
           /\ f.pages[1] = Some(last.text) /\ f.pages[2] = None
    /\ \E g \in InDir("discarded") :
           /\ g.name = IsolatedName(last.name, 1)
           /\ g.pages = <<Some(last.text)>>
\* C31 as stated: a page that is processed to its end leaves the accumulator
\* of failed rules empty for the next page, the count of discarded pages goes
\* up by one for every page that is isolated, and doc_scanner returns the
\* number of pages with a count of isolated pages that is not greater.
C31_AsStated ==
    /\ (Processed /\ last.c.exc = None) => last.c.on_error = <<>>
    /\ (Processed /\ last.c.saved # {}) => last.c.restarted
    /\ ret.kind = "returned" => ret.discarded <= ret.pages
\* Every message of the table was is still there, with its genre and text,
\* and is open only if it was open.
OnlyAppendedOrResolved(now, was) ==
    /\ Len(now) >= Len(was)
    /\ \A i \in 1..Len(was) :
           /\ now[i].genre = was[i].genre
           /\ now[i].args = was[i].args
           /\ now[i].status => was[i].status

\* C32: no step deletes a warning message or changes its genre or text; the
\* only change made to a stored message is of its status from open to
\* resolved, and a resolved message is never opened again.
C32_WarningsAppendOnly == [][OnlyAppendedOrResolved(warning', warning)]_vars

\* The page processed last resolved a message that was open before it: the
\* message is still there with the genre and text it had.
C32_Witness ==
    /\ Processed /\ warning = last.c.warning
    /\ \E i \in 1..Len(last.before.warning) :
           /\ last.before.warning[i].status /\ ~warning[i].status
           /\ warning[i].genre = last.before.warning[i].genre
           /\ warning[i].args = last.before.warning[i].args
\* The discard row points to a DISCARD message written for its page.
PointsToOwnMessage(r, wtbl) ==
    /\ r.id_warning_message # None
    /\ Get(r.id_warning_message) \in 1..Len(wtbl)
    /\ LET m == wtbl[Get(r.id_warning_message)]
       IN  /\ m.genre = "DISCARD"
           /\ m.args.doc = r.document_source
           /\ m.args.page = r.page_number

\* C33: every discard row holds the id of a DISCARD message written for the
\* same page just before it, never NULL and never -1; no two discard rows
\* hold the same id; and a page whose DISCARD message could not be saved
\* (id -1) writes no discard row.
C33_DiscardHasOwnMessage ==
    /\ \A i \in 1..Len(discard) : PointsToOwnMessage(discard[i], warning)
    /\ \A i, j \in 1..Len(discard) :
           discard[i].id_warning_message = discard[j].id_warning_message => i = j
    /\ Processed =>
           /\ \A i \in 1..Len(Added("discard")) :
                  Get(Added("discard")[i].id_warning_message) > Len(last.before.warning)
           /\ (Calls("save_warning DISCARD") # {} /\ last.c.dl.id_warning_message = Some(-1)) =>
                  Added("discard") = <<>>

\* The DISCARD message of the page processed last could not be saved and the
\* page wrote no discard row, while the discard row of a page processed
\* before holds the id of its own message.
C33_Witness ==
    /\ Processed /\ Calls("save_warning DISCARD") # {}
    /\ last.c.dl.id_warning_message = Some(-1)
    /\ Added("discard") = <<>>
    /\ Len(discard) >= 1 /\ PointsToOwnMessage(discard[1], warning)
\* The distance of the record of the page processed last when line 263 was
\* reached: that of the discard row it was taken from, or none.
DistanceBefore ==
    IF last.c.charged THEN last.before.discard[last.c.open_discard].distance ELSE None

\* The distance query of lines 263-266 was run for the page processed last.
LookedUp == Calls("QUERY_GET_DISTANCE") # {}

\* C34 as stated: the distance is looked up for a page exactly when the page
\* was not flagged as a duplicate and its record has no distance yet.
C34_AsStated ==
    Processed => (LookedUp <=> (~last.c.duplicate /\ DistanceBefore = None))
(***************************************************************************)
(* The distance lookup against a delivery table that already holds the     *)
(* records of an older document: up to MaxHistory rows, of two cities,     *)
(* with a distance or with NULL.                                           *)
(***************************************************************************)
MaxHistory == 2

\* The record of page n of the older document.
HistoryRow(n, city, distance) ==
    DeliveryRow([Delivery(FileName("2024_02_DDT_0101_0200", <<>>, "pdf"), n) EXCEPT
                     !.document_number = Some(100 + n),
                     !.document_genre = Some("TA"),
                     !.document_date = Some(Date(2024, 1)),
                     !.company_name = Some("ACME"),
                     !.delivery_city = Some(city),
                     !.quantity = Some(3200),
                     !.delivery_date = Some(Date(2024, 1)),
                     !.vehicle = Some(V_AB123CD),
                     !.vehicle_driver = Some(D_ROSSI),
                     !.distance = distance])

Histories ==
    UNION {{[n \in 1..m |-> HistoryRow(n, f[n][1], f[n][2])] :
                f \in [1..m -> {"MILANO", "ROMA"} \X ({None} \cup {Some(k) : k \in Kms})]} :
           m \in 0..MaxHistory}

\* Pages for MILANO and for ROMA that pass the four rules, and a page for
\* MILANO whose quantity rule fails.
CacheTexts ==
    { Text(GoodDoc, GoodCity, None, Some(3200), GoodVeh),
      Text(Doc(2, "TA", Date(2024, 1)), None, City("BETA", "ROMA"), Some(3200), GoodVeh),
      Text(GoodDoc, GoodCity, None, None, GoodVeh) }

CacheInit ==
    /\ delivery \in Histories /\ discard = <<>> /\ warning = <<>>
    /\ \E base \in DdtBases, n \in 1..MaxPages :
           fs = {File("working", FileName(base, <<>>, "recording.pdf"), [p \in 1..n |-> None])}
    /\ pc = "idle" /\ run_docs = <<>> /\ scan = NoScan /\ ret = NoRet
    /\ last = NoLast /\ scans = 0 /\ edits = 0 /\ sweep = NoSweep
    /\ faulty = FALSE /\ sim = NoSim /\ iso = NoIso /\ query = NoQuery

CacheScanPage == ScanPageWith(CacheTexts, GeoOutcomes)

CacheNext == ScanOpen \/ CacheScanPage \/ ScanReturn

CacheSpec == CacheInit /\ [][CacheNext]_vars

(***************************************************************************)
(* check_gaps on its own, with a store whose writes may report no affected *)
(* row: the delivery table holds the records of the two pages of an older  *)
(* document, which carry two document numbers of 2024.                     *)
(***************************************************************************)
MaxGapNumber == 6   \* greatest document number stored

GapFaultInit ==
    /\ query = NoQuery
    /\ discard = <<>> /\ warning = <<>>
    /\ pc = "idle" /\ run_docs = <<>> /\ scan = NoScan /\ ret = NoRet
    /\ last = NoLast /\ scans = 0 /\ edits = 0 /\ sweep = NoSweep
    /\ faulty = TRUE /\ sim = NoSim /\ iso = NoIso
    /\ \E a \in 1..MaxGapNumber, b \in 1..MaxGapNumber :
           /\ a < b
           /\ fs = {File("working",
                         FileName("2024_02_DDT_0101_0200", <<>>, "recording.pdf"),
                         << Some(Text(Doc(a, "TA", Date(2024, 1)), GoodCity, None,
                                      Some(3200), GoodVeh)),
                            Some(Text(Doc(b, "TA", Date(2024, 1)), GoodCity, None,
                                      Some(3200), GoodVeh)) >>)}
           /\ delivery = << [HistoryRow(1, "MILANO", Some(12)) EXCEPT
                                 !.document_number = Some(a)],
                            [HistoryRow(2, "MILANO", Some(12)) EXCEPT
                                 !.document_number = Some(b)] >>

GapFaultSpec == GapFaultInit /\ [][CheckGaps]_vars

\* The distinct distances the stored deliveries held for the city of the
\* page processed last when its distance was looked up.
StoredDistances == DistancesOf(last.before.delivery, last.c.dl.delivery_city)

\* C35: for a page with a city whose distance is looked up, the lookup is a
\* hit exactly when the stored deliveries hold one distinct distance for that
\* exact city; the value is then taken with no call to the services, also
\* when it is NULL; with no value or several values the services are called.
C35_HitOnOneDistinct ==
    (Processed /\ LookedUp /\ TruthyStr(last.c.dl.delivery_city)) =>
        /\ last.c.cache = "hit" <=> Cardinality(StoredDistances) = 1
        /\ last.c.cache = "hit" =>
               /\ GeoCalls = {}
               /\ StoredDistances = {last.c.dl.distance}
        /\ Cardinality(StoredDistances) # 1 =>
               /\ last.c.cache = "miss"
               /\ \E i \in GeoCalls : last.c.trace[i] = "geo.search"

\* The only distance stored for the city of the page was NULL: the lookup was
\* a hit, no service was called and the page was stored with a NULL distance.
C35_Witness ==
    /\ Processed /\ LookedUp /\ TruthyStr(last.c.dl.delivery_city)
    /\ StoredDistances = {None}
    /\ last.c.cache = "hit" /\ GeoCalls = {}
    /\ Len(Added("delivery")) = 1 /\ Added("delivery")[1].distance = None
\* No two open GAP messages are for the same document number and year.
NoTwoOpenGaps ==
    \A i, j \in 1..Len(warning) :
        (/\ warning[i].genre = "GAP" /\ warning[i].status
         /\ warning[j].genre = "GAP" /\ warning[j].status
         /\ warning[i].args = warning[j].args) => i = j

\* The step is a sweep made on the tables as the sweep before left them.
SweepsAgain ==
    /\ sweep.n >= 1 /\ sweep'.n = sweep.n + 1
    /\ delivery = sweep.delivery /\ discard = sweep.discard /\ warning = sweep.after

\* C36: after any scans and sweeps there are never two open GAP messages for
\* the same document number and year, and a sweep made again with no change
\* to the records in between adds no message and returns 0.
C36_NoDoubleGap ==
    /\ []NoTwoOpenGaps
    /\ [][SweepsAgain => (warning' = warning /\ sweep'.ret = 0)]_vars

\* Two sweeps were made one after the other with the GAP message of document
\* 2 of 2024 open after the first: there is still one such message and the
\* second sweep returned 0.
C36_Witness ==
    /\ sweep.n = 2 /\ sweep.ret = 0
    /\ sweep.before = sweep.after /\ warning = sweep.after
    /\ Cardinality(OpenGaps(warning, Some(2), 2024)) = 1

\* The message linked to the discard record the page was charged from.
CarriedMessage == Get(last.before.discard[last.c.open_discard].id_warning_message)

\* C37 as stated: a re-scanned isolated page charged from a fully populated
\* discard record and found to duplicate a stored delivery is isolated as a
\* duplicate: its warning id becomes -1, no delivery, discard or warning row
\* is written, and the DISCARD message of the discard record is left open.
C37_AsStated ==
    (Processed /\ last.c.charged /\ last.c.duplicate) =>
        /\ last.c.dl.id_warning_message = Some(-1)
        /\ last.c.delivery = last.before.delivery
        /\ last.c.discard = last.before.discard
        /\ last.c.warning = last.before.warning
        /\ last.c.saved # {}
        /\ last.c.warning[CarriedMessage].status

\* run() takes the next file of its list, whose name matches the convention.
TakesMatching == pc = "run" /\ run_docs # <<>> /\ MatchesWorkingDoc(Head(run_docs))

\* The name under which run() works on the file it takes, and the name under
\* which it stores it (lines 453 and 467).
RecordingName(doc) == FileName(doc.base, doc.sfx, "recording.pdf")

RecordedName(doc) == FileName(doc.base, doc.sfx, "recorded.pdf")

\* C38 as stated: a matching file taken by run() goes from its working name
\* to <base>.recording.pdf and from there to the recorded directory as
\* <base>.recorded.pdf, and is then no longer in the working directory.
C38_AsStated ==
    [][TakesMatching =>
          /\ \E f \in fs' : f.dir = "recorded" /\ f.name = RecordedName(Head(run_docs))
          /\ \A f \in fs' : f.dir = "working" =>
                 f.name \notin {Head(run_docs), RecordingName(Head(run_docs))}]_vars

\* The file run() takes is left in the working directory as
\* <base>.recording.pdf, a name outside the convention, when doc_scanner
\* raises, and no file is ever in the recorded directory.
C38_LeftRecording ==
    /\ [][TakesMatching =>
            /\ ret'.kind = "raised"
            /\ \E f \in fs' : /\ f.dir = "working"
                              /\ f.name = RecordingName(Head(run_docs))
                              /\ ~MatchesWorkingDoc(f.name)]_vars
    /\ [](\A f \in fs : f.dir # "recorded")

(***************************************************************************)
(* Querier.run on its own, querier.py lines 101-119: it is called with up  *)
(* to MaxArgs positional arguments, each None or a string.                 *)
(***************************************************************************)
MaxArgs == 3

QueryValues == {None} \cup {Some(s) : s \in {"", "MILANO", "ROMA", "ACME"}}

QueryArgs == UNION {[1..n -> QueryValues] : n \in 0..MaxArgs}

RunQuery ==
    /\ \E args \in QueryArgs : query' = Querier_run(args)
    /\ UNCHANGED <<delivery, discard, warning, fs, pc, run_docs, scan, ret, last,
                   scans, edits, faulty, sim, sweep, iso>>

QueryNext == RunQuery

QuerySpec == Init /\ [][QueryNext]_vars

\* C39: Querier.run passes the arguments to the cursor as the parameters of
\* the query exactly when there is at least one argument and some argument
\* is not None; otherwise the query is executed with no parameter, so a
\* lookup whose one key is None is issued without its parameter.
C39_BindsUnlessAllNone ==
    query.issued =>
        /\ query.bound <=> (Len(query.args) >= 1
                            /\ \E i \in 1..Len(query.args) : query.args[i] # None)
        /\ query.bound => query.params = query.args
        /\ ~query.bound => query.params = <<>>
        /\ query.args = <<None>> => query.params = <<>>

\* Querier.run was called with one argument, None, as for the distance of a
\* page with no city, and executed the query without parameters.
C39_Witness ==
    /\ query.issued /\ query.args = <<None>>
    /\ ~query.bound /\ query.params = <<>>

=============================================================================
